---- MODULE Spec2Model ----
(***************************************************************************)
(* Quantum chess: the sparse simulator (QChessSparseSimulator) and the     *)
(* game layer (QChessGame) of python/qchess/chess_utils.py.                *)
(*                                                                         *)
(* A basis key is a sequence of 0/1, one per tracked qubit; cell i of the  *)
(* code (0-based) is element i+1 of the sequence.  A tag is a one-letter   *)
(* string, or None.                                                        *)
(*                                                                         *)
(* Amplitudes are exact.  A stored value <<a,b,c,d>> stands for the        *)
(* complex number ((a + b*sqrt2) + i*(c + d*sqrt2)) / sqrt(den), where     *)
(* den = <<p,q>> stands for the positive real p + q*sqrt2 and is common to *)
(* the whole map.  Dividing an amplitude by sqrt(2) is: leave it, multiply *)
(* every other amplitude by sqrt(2), and double den.  The code's tests     *)
(* "x < _ZERO_EPS" and "x > 1-_ZERO_EPS" are the exact tests x = 0 and     *)
(* x >= 1.                                                                 *)
(*                                                                         *)
(* An operation is an operator from a game record to a game record; a      *)
(* raised exception is the field err, and the record returned with it is   *)
(* the state the exception leaves behind.                                  *)
(***************************************************************************)
EXTENDS Integers, Sequences, FiniteSets, TLC

None == "None"
NoneM == 0 - 2

OK == "none"
QChessInvalidCommand == "QChessInvalidCommand"
AssertionError == "AssertionError"
KeyError == "KeyError"
TypeError == "TypeError"
ValueError == "ValueError"
IndexError == "IndexError"

Raise(g, e) == [g EXCEPT !.err = e]

----------------------------------------------------------------------------
(* Exact arithmetic: p + q*sqrt2 as <<p,q>>, complex numbers as <<a,b,c,d>> *)

ZAdd(x, y) == <<x[1] + y[1], x[2] + y[2]>>
ZSub(x, y) == <<x[1] - y[1], x[2] - y[2]>>
ZMul(x, y) == <<x[1] * y[1] + 2 * x[2] * y[2], x[1] * y[2] + x[2] * y[1]>>
ZZero == <<0, 0>>
ZOne == <<1, 0>>

\* the sign of p + q*sqrt2: -1, 0 or 1
ZSign(x) ==
    LET p == x[1]
        q == x[2]
    IN  IF p = 0 /\ q = 0 THEN 0
        ELSE IF p >= 0 /\ q >= 0 THEN 1
        ELSE IF p <= 0 /\ q <= 0 THEN 0 - 1
        ELSE IF p > 0 THEN (IF p * p > 2 * q * q THEN 1 ELSE 0 - 1)
        ELSE (IF 2 * q * q > p * p THEN 1 ELSE 0 - 1)

CZero == <<0, 0, 0, 0>>
COne == <<1, 0, 0, 0>>
CAdd(v, w) == <<v[1] + w[1], v[2] + w[2], v[3] + w[3], v[4] + w[4]>>
CNeg(v) == <<0 - v[1], 0 - v[2], 0 - v[3], 0 - v[4]>>
CMulI(v) == <<0 - v[3], 0 - v[4], v[1], v[2]>>
CMulSqrt2(v) == <<2 * v[2], v[1], 2 * v[4], v[3]>>
CRe(v) == <<v[1], v[2]>>
CIm(v) == <<v[3], v[4]>>
CMul(v, w) ==
    LET re == ZSub(ZMul(CRe(v), CRe(w)), ZMul(CIm(v), CIm(w)))
        im == ZAdd(ZMul(CRe(v), CIm(w)), ZMul(CIm(v), CRe(w)))
    IN  <<re[1], re[2], im[1], im[2]>>
\* v.real*v.real + v.imag*v.imag
CAbsSq(v) ==
    <<v[1] * v[1] + 2 * v[2] * v[2] + v[3] * v[3] + 2 * v[4] * v[4],
      2 * (v[1] * v[2] + v[3] * v[4])>>

RECURSIVE SumAbsSq(_, _)
SumAbsSq(coeff, keys) ==
    IF keys = {} THEN ZZero
    ELSE LET k == CHOOSE x \in keys : TRUE
         IN  ZAdd(CAbsSq(coeff[k]), SumAbsSq(coeff, keys \ {k}))

----------------------------------------------------------------------------
(* utils.py: string helpers on keys *)

\* a sequence built element by element, as a tuple
List(f) == SubSeq(f, 1, Len(f))

hf_swap_str_char(x, i, j) ==
    List([n \in 1..Len(x) |-> IF n = i + 1 THEN x[j + 1]
                              ELSE IF n = j + 1 THEN x[i + 1] ELSE x[n]])

hf_invert_str01(x, i) ==
    List([n \in 1..Len(x) |-> IF n = i + 1 THEN 1 - x[n] ELSE x[n]])

hf_drop_str_char(x, i) ==
    List([n \in 1..(Len(x) - 1) |-> IF n <= i THEN x[n] ELSE x[n + 1]])

IsUpper(t) == t \in {"R", "N", "B", "Q", "K", "P"}
IsLower(t) == t \in {"r", "n", "b", "q", "k", "p"}
Upper(t) ==
    CASE t = "r" -> "R" [] t = "n" -> "N" [] t = "b" -> "B"
      [] t = "q" -> "Q" [] t = "k" -> "K" [] t = "p" -> "P" [] OTHER -> t
Lower(t) ==
    CASE t = "R" -> "r" [] t = "N" -> "n" [] t = "B" -> "b"
      [] t = "Q" -> "q" [] t = "K" -> "k" [] t = "P" -> "p" [] OTHER -> t

----------------------------------------------------------------------------
(* QChessSparseSimulator *)

Keys(g) == DOMAIN g.coeff

\* sum of |amplitude|^2 over the keys with bit 1 at index, as a multiple of 1/den
ProbNum(g, index) ==
    SumAbsSq(g.coeff, {k \in Keys(g) : k[index + 1] = 1})

\* _get_probability_i, as a multiple of 1/den (the cache holds what this recomputes)
get_probability_i(g, index) ==
    IF g.pos2tag[index + 1] = None THEN ZZero ELSE ProbNum(g, index)

\* prob < _ZERO_EPS and prob > 1-_ZERO_EPS for a value of get_probability_i
IsZeroProb(g, p) == ZSign(p) <= 0
IsOneProb(g, p) == ZSign(ZSub(p, g.den)) >= 0

\* a key is left unchanged by a gate: some control cell occupied, or every
\* negate-control cell empty.  control is a set; negate_control is <<>> (None) or <<set>>
Excluded(k, control, negate_control) ==
    \/ \E x \in control : k[x + 1] # 0
    \/ /\ negate_control # <<>>
       /\ \A x \in negate_control[1] : k[x + 1] = 0

GateAsserts(g, src, dst, control, negate_control) ==
    LET x0 == g.pos2tag[src + 1]
        x2 == g.pos2tag[dst + 1]
    IN  /\ src # dst
        /\ src \notin control /\ dst \notin control
        /\ negate_control # <<>> => (src \notin negate_control[1] /\ dst \notin negate_control[1])
        /\ \/ x0 = None /\ x2 # None
           \/ x0 # None /\ x2 = None
           \/ x0 = x2 /\ x0 # None

\* the keys a gate on (src,dst) redistributes: exactly one of the two bits set, not excluded
Affected(g, src, dst, control, negate_control) ==
    {k \in Keys(g) : /\ k[src + 1] + k[dst + 1] = 1
                     /\ ~Excluded(k, control, negate_control)}

GateTag(g, src, dst) ==
    IF g.pos2tag[src + 1] # None THEN g.pos2tag[src + 1] ELSE g.pos2tag[dst + 1]

\* a gate that tags both cells without looking at the keys
GateTagsBoth(g, newcoeff, src, dst) ==
    [g.pos2tag EXCEPT ![src + 1] = GateTag(g, src, dst), ![dst + 1] = GateTag(g, src, dst)]

\* pos2tag after a gate: src/dst keep the tag iff a stored key has the bit
GateTags(g, newcoeff, src, dst) ==
    LET tag == GateTag(g, src, dst)
    IN  [g.pos2tag EXCEPT
            ![src + 1] = IF \E k \in DOMAIN newcoeff : k[src + 1] = 1 THEN tag ELSE None,
            ![dst + 1] = IF \E k \in DOMAIN newcoeff : k[dst + 1] = 1 THEN tag ELSE None]

apply_sqrtiswap(g, src, dst, control, negate_control, tag_inverse) ==
    IF g.err # OK THEN g
    ELSE IF ~GateAsserts(g, src, dst, control, negate_control) THEN Raise(g, AssertionError)
    ELSE
    LET aff == Affected(g, src, dst, control, negate_control)
        phase(v) == IF tag_inverse THEN CNeg(CMulI(v)) ELSE CMulI(v)
        cand == (Keys(g) \ aff) \cup aff \cup {hf_swap_str_char(k, src, dst) : k \in aff}
        val(k) ==
            IF k \in Keys(g) /\ k \notin aff /\ hf_swap_str_char(k, src, dst) \notin aff
            THEN CMulSqrt2(g.coeff[k])
            ELSE CAdd(IF k \in aff THEN g.coeff[k] ELSE CZero,
                      IF hf_swap_str_char(k, src, dst) \in aff
                      THEN phase(g.coeff[hf_swap_str_char(k, src, dst)]) ELSE CZero)
        keep == {k \in cand : val(k) # CZero}
        newcoeff == [k \in keep |-> val(k)]
    IN  [g EXCEPT !.coeff = newcoeff,
                  !.den = ZAdd(g.den, g.den),
                  !.pos2tag = GateTags(g, newcoeff, src, dst)]

\* a swap that does not look at the negate-control cells
apply_iswap_unnegated(g, src, dst, control, negate_control, tag_inverse) ==
    IF g.err # OK THEN g
    ELSE IF ~GateAsserts(g, src, dst, control, negate_control) THEN Raise(g, AssertionError)
    ELSE
    LET aff == Affected(g, src, dst, control, <<>>)
        phase(v) == IF tag_inverse THEN CNeg(CMulI(v)) ELSE CMulI(v)
        keep == (Keys(g) \ aff) \cup {hf_swap_str_char(k, src, dst) : k \in aff}
        newcoeff == [k \in keep |->
                        IF hf_swap_str_char(k, src, dst) \in aff
                        THEN phase(g.coeff[hf_swap_str_char(k, src, dst)])
                        ELSE g.coeff[k]]
    IN  [g EXCEPT !.coeff = newcoeff,
                  !.pos2tag = GateTags(g, newcoeff, src, dst)]

apply_iswap(g, src, dst, control, negate_control, tag_inverse) ==
    IF g.err # OK THEN g
    ELSE IF ~GateAsserts(g, src, dst, control, negate_control) THEN Raise(g, AssertionError)
    ELSE
    LET aff == Affected(g, src, dst, control, negate_control)
        phase(v) == IF tag_inverse THEN CNeg(CMulI(v)) ELSE CMulI(v)
        keep == (Keys(g) \ aff) \cup {hf_swap_str_char(k, src, dst) : k \in aff}
        newcoeff == [k \in keep |->
                        IF hf_swap_str_char(k, src, dst) \in aff
                        THEN phase(g.coeff[hf_swap_str_char(k, src, dst)])
                        ELSE g.coeff[k]]
    IN  [g EXCEPT !.coeff = newcoeff,
                  !.pos2tag = GateTags(g, newcoeff, src, dst)]

change_tag(g, index, label) ==
    IF g.err # OK THEN g
    ELSE IF ~(0 <= index /\ index < Len(g.pos2tag)) THEN Raise(g, AssertionError)
    ELSE IF g.pos2tag[index + 1] = None THEN Raise(g, AssertionError)
    ELSE [g EXCEPT !.pos2tag[index + 1] = label]

\* a drop_coeff that forgets to rescale the remaining amplitudes
drop_coeff_unscaled(g, key_list) ==
    IF g.err # OK THEN g
    ELSE IF key_list = {} THEN g
    ELSE LET tmp0 == Keys(g) \ key_list
         IN  IF ZSign(SumAbsSq(g.coeff, tmp0)) <= 0
             THEN Raise([g EXCEPT !.coeff = [k \in tmp0 |-> g.coeff[k]]], AssertionError)
             ELSE [g EXCEPT !.coeff = [k \in tmp0 |-> g.coeff[k]],
                            !.pos2tag = List([n \in 1..Len(g.pos2tag) |->
                                                 IF \E y \in tmp0 : y[n] = 1
                                                 THEN g.pos2tag[n] ELSE None])]

\* key_list is the set of keys to drop (all of them stored keys)
drop_coeff(g, key_list) ==
    IF g.err # OK THEN g
    ELSE IF key_list = {} THEN g
    ELSE
    LET tmp0 == Keys(g) \ key_list
        popped == [k \in tmp0 |-> g.coeff[k]]
        tmp1 == SumAbsSq(g.coeff, tmp0)
    IN  IF ZSign(tmp1) <= 0
        THEN Raise([g EXCEPT !.coeff = popped], AssertionError)
        ELSE [g EXCEPT !.coeff = popped,
                       !.den = tmp1,
                       !.pos2tag = List([n \in 1..Len(g.pos2tag) |->
                                            IF \E y \in tmp0 : y[n] = 1
                                            THEN g.pos2tag[n] ELSE None])]

RECURSIVE DropChars(_, _)
\* hf_drop_str_char for every index of the set, the largest first
DropChars(x, index) ==
    IF index = {} THEN x
    ELSE LET i == CHOOSE y \in index : \A z \in index : z <= y
         IN  DropChars(hf_drop_str_char(x, i), index \ {i})

\* a drop_ancilla that does not look at the probability of the ancilla
drop_ancilla_unchecked(g, index) ==
    IF g.err # OK THEN g
    ELSE IF \E x \in index : x < 64 THEN Raise(g, AssertionError)
    ELSE IF \E x \in index : x >= Len(g.pos2tag) THEN Raise(g, AssertionError)
    ELSE
    LET newkeys == {DropChars(k, index) : k \in Keys(g)}
    IN  [g EXCEPT !.coeff = [k2 \in newkeys |->
                                g.coeff[CHOOSE k \in Keys(g) : DropChars(k, index) = k2]],
                  !.pos2tag = DropChars(g.pos2tag, index)]

drop_ancilla(g, index) ==
    IF g.err # OK THEN g
    ELSE IF \E x \in index : x < 64 THEN Raise(g, AssertionError)
    ELSE IF \E x \in index : x >= Len(g.pos2tag) THEN Raise(g, AssertionError)
    ELSE IF \E x \in index : LET p == get_probability_i(g, x)
                             IN  ~(IsZeroProb(g, p) \/ IsOneProb(g, p))
         THEN Raise(g, AssertionError)
    ELSE
    LET newkeys == {DropChars(k, index) : k \in Keys(g)}
    IN  [g EXCEPT !.coeff = [k2 \in newkeys |->
                                g.coeff[CHOOSE k \in Keys(g) : DropChars(k, index) = k2]],
                  !.pos2tag = DropChars(g.pos2tag, index)]

\* an add_ancilla that lengthens the keys and not the tag array
add_ancilla_untagged(g) ==
    IF g.err # OK THEN g
    ELSE [g EXCEPT !.coeff = [k2 \in {Append(k, 0) : k \in Keys(g)} |->
                                 g.coeff[SubSeq(k2, 1, Len(k2) - 1)]]]

add_ancilla(g) ==
    IF g.err # OK THEN g
    ELSE [g EXCEPT !.coeff = [k2 \in {Append(k, 0) : k \in Keys(g)} |->
                                 g.coeff[SubSeq(k2, 1, Len(k2) - 1)]],
                   !.pos2tag = Append(g.pos2tag, None)]

\* fix is NoneM, 0 or 1; rnd is the outcome the random draw gives when it is used
measure(g, index, fix, rnd) ==
    IF g.err # OK THEN g
    ELSE IF index < 0 THEN Raise(g, QChessInvalidCommand)
    ELSE IF index >= Len(g.pos2tag) THEN Raise(g, AssertionError)
    ELSE
    LET prob == get_probability_i(g, index)
        zero == IsZeroProb(g, prob)
        one == IsOneProb(g, prob)
        result == IF zero THEN 0
                  ELSE IF one THEN 1
                  ELSE IF fix # NoneM THEN fix ELSE rnd
        \* g2: after the ancillas that have collapsed are dropped
        Measured(g2) == IF g2.err # OK THEN g2 ELSE [g2 EXCEPT !.last_measure = result]
        \* g1: after drop_coeff
        Collapsed(g1) ==
            Measured(drop_ancilla(g1, {x \in 64..(Len(g1.pos2tag) - 1) :
                                          LET p == get_probability_i(g1, x)
                                          IN  IsZeroProb(g1, p) \/ IsOneProb(g1, p)}))
    IN  IF zero /\ fix = 1 THEN Raise(g, QChessInvalidCommand)
        ELSE IF ~zero /\ one /\ fix = 0 THEN Raise(g, QChessInvalidCommand)
        ELSE Collapsed(drop_coeff(g, {x \in Keys(g) : x[index + 1] = 1 - result}))

SeqSet(path) == {path[n] : n \in 1..Len(path)}

\* the operand checks the protocols share: distinct endpoints on the board, a path
\* without repetition, on the board, and free of the endpoints
BadPath(path, ends) ==
    \/ Cardinality(SeqSet(path)) < Len(path)
    \/ \E x \in ends : x \in SeqSet(path)
    \/ \E x \in SeqSet(path) : ~(0 <= x /\ x < 64)

PathBlocked(g, path) ==
    \E x \in SeqSet(path) : IsOneProb(g, get_probability_i(g, x))

normal_slide(g, src, dst, path) ==
    IF g.err # OK THEN g
    ELSE IF \/ src = dst \/ ~(0 <= src /\ src < 64) \/ ~(0 <= dst /\ dst < 64)
            \/ BadPath(path, {src, dst})
         THEN Raise(g, QChessInvalidCommand)
    ELSE
    LET tag_src == g.pos2tag[src + 1]
        tag_dst == g.pos2tag[dst + 1]
    IN  IF tag_src = None \/ (tag_dst # None /\ tag_src # tag_dst)
        THEN Raise(g, QChessInvalidCommand)
        ELSE IF PathBlocked(g, path) THEN Raise(g, QChessInvalidCommand)
        ELSE apply_iswap(g, src, dst, SeqSet(path), <<>>, FALSE)

normal_jump(g, src, dst) == normal_slide(g, src, dst, <<>>)

\* a split without the two slides that are made where one path only is open
split_slide_uncontrolled(g, src, dst1, dst2, path1, path2) ==
    IF g.err # OK THEN g
    ELSE IF \/ src = dst1 \/ src = dst2 \/ dst1 = dst2
            \/ ~(0 <= src /\ src < 64) \/ ~(0 <= dst1 /\ dst1 < 64) \/ ~(0 <= dst2 /\ dst2 < 64)
            \/ BadPath(path1, {src, dst1, dst2})
            \/ BadPath(path2, {src, dst1, dst2})
         THEN Raise(g, QChessInvalidCommand)
    ELSE
    LET tag_src == g.pos2tag[src + 1]
        tag_dst1 == g.pos2tag[dst1 + 1]
        tag_dst2 == g.pos2tag[dst2 + 1]
        both == SeqSet(path1) \cup SeqSet(path2)
        \* "if (self.pos2tag[a] is not None) or (self.pos2tag[b] is not None):
        \*      self.apply_iswap(a, b, ..)" on gi, the simulator after the steps before
        Step(gi, a, b, control, negate_control) ==
            IF gi.pos2tag[a + 1] # None \/ gi.pos2tag[b + 1] # None
            THEN apply_iswap(gi, a, b, control, negate_control, FALSE)
            ELSE gi
    IN  IF \/ tag_src = None
           \/ (tag_dst1 # None /\ tag_src # tag_dst1)
           \/ (tag_dst2 # None /\ tag_src # tag_dst2)
        THEN Raise(g, QChessInvalidCommand)
        ELSE IF PathBlocked(g, path1) /\ PathBlocked(g, path2)
        THEN Raise(g, QChessInvalidCommand)
        ELSE
        Step(apply_sqrtiswap(g, src, dst1, both, <<>>, FALSE), src, dst2, both, <<>>)

split_slide(g, src, dst1, dst2, path1, path2) ==
    IF g.err # OK THEN g
    ELSE IF \/ src = dst1 \/ src = dst2 \/ dst1 = dst2
            \/ ~(0 <= src /\ src < 64) \/ ~(0 <= dst1 /\ dst1 < 64) \/ ~(0 <= dst2 /\ dst2 < 64)
            \/ BadPath(path1, {src, dst1, dst2})
            \/ BadPath(path2, {src, dst1, dst2})
         THEN Raise(g, QChessInvalidCommand)
    ELSE
    LET tag_src == g.pos2tag[src + 1]
        tag_dst1 == g.pos2tag[dst1 + 1]
        tag_dst2 == g.pos2tag[dst2 + 1]
        both == SeqSet(path1) \cup SeqSet(path2)
        \* "if (self.pos2tag[a] is not None) or (self.pos2tag[b] is not None):
        \*      self.apply_iswap(a, b, ..)" on gi, the simulator after the steps before
        Step(gi, a, b, control, negate_control) ==
            IF gi.pos2tag[a + 1] # None \/ gi.pos2tag[b + 1] # None
            THEN apply_iswap(gi, a, b, control, negate_control, FALSE)
            ELSE gi
    IN  IF \/ tag_src = None
           \/ (tag_dst1 # None /\ tag_src # tag_dst1)
           \/ (tag_dst2 # None /\ tag_src # tag_dst2)
        THEN Raise(g, QChessInvalidCommand)
        ELSE IF PathBlocked(g, path1) /\ PathBlocked(g, path2)
        THEN Raise(g, QChessInvalidCommand)
        ELSE
        Step(Step(Step(apply_sqrtiswap(g, src, dst1, both, <<>>, FALSE),
                       src, dst2, both, <<>>),
                  src, dst1, SeqSet(path1), <<SeqSet(path2)>>),
             src, dst2, SeqSet(path2), <<SeqSet(path1)>>)

split_jump(g, src, dst1, dst2) == split_slide(g, src, dst1, dst2, <<>>, <<>>)

merge_slide(g, src1, src2, dst, path1, path2) ==
    IF g.err # OK THEN g
    ELSE IF \/ src1 = src2 \/ src1 = dst \/ src2 = dst
            \/ ~(0 <= src1 /\ src1 < 64) \/ ~(0 <= src2 /\ src2 < 64) \/ ~(0 <= dst /\ dst < 64)
            \/ BadPath(path1, {src1, src2, dst})
            \/ BadPath(path2, {src1, src2, dst})
         THEN Raise(g, QChessInvalidCommand)
    ELSE
    LET tag_src1 == g.pos2tag[src1 + 1]
        tag_src2 == g.pos2tag[src2 + 1]
        tag_dst == g.pos2tag[dst + 1]
        both == SeqSet(path1) \cup SeqSet(path2)
        \* "if (self.pos2tag[a] is not None) or (self.pos2tag[b] is not None):
        \*      self.apply_iswap(a, b, ..)" on gi, the simulator after the steps before
        Step(gi, a, b, control, negate_control) ==
            IF gi.pos2tag[a + 1] # None \/ gi.pos2tag[b + 1] # None
            THEN apply_iswap(gi, a, b, control, negate_control, TRUE)
            ELSE gi
        \* g3: after the three slides
        Merged(g3) ==
            IF g3.pos2tag[dst + 1] # None \/ g3.pos2tag[src1 + 1] # None
            THEN apply_sqrtiswap(g3, dst, src1, both, <<>>, TRUE) ELSE g3
    IN  IF \/ tag_src1 = None \/ tag_src2 = None \/ tag_src1 # tag_src2
           \/ (tag_dst # None /\ tag_src1 # tag_dst)
        THEN Raise(g, QChessInvalidCommand)
        ELSE IF PathBlocked(g, path1) /\ PathBlocked(g, path2)
        THEN Raise(g, QChessInvalidCommand)
        ELSE
        Merged(Step(Step(apply_iswap(g, dst, src2, SeqSet(path2), <<SeqSet(path1)>>, TRUE),
                         dst, src1, SeqSet(path1), <<SeqSet(path2)>>),
                    dst, src2, both, <<>>))

merge_jump(g, src1, src2, dst) == merge_slide(g, src1, src2, dst, <<>>, <<>>)

\* a blocked slide that does not look at its path once dst is found empty
blocked_slide_through(g, src, dst, path, measure_fix, rnd) ==
    IF g.err # OK THEN g
    ELSE IF \/ src = dst \/ ~(0 <= src /\ src < 64) \/ ~(0 <= dst /\ dst < 64)
            \/ BadPath(path, {src, dst})
         THEN Raise(g, QChessInvalidCommand)
    ELSE
    LET tag_src == g.pos2tag[src + 1]
        tag_dst == g.pos2tag[dst + 1]
        \* g1: after the measurement of dst
        Slide(g1) ==
            IF g1.err = OK /\ g1.last_measure = 0 /\ g1.pos2tag[src + 1] # None
            THEN apply_iswap(g1, src, dst, {}, <<>>, FALSE)
            ELSE g1
    IN  IF tag_src = None \/ tag_dst = None \/ tag_src = tag_dst
        THEN Raise(g, QChessInvalidCommand)
        ELSE IF \/ IsZeroProb(g, get_probability_i(g, src))
                \/ IsOneProb(g, get_probability_i(g, dst))
        THEN Raise(g, QChessInvalidCommand)
        ELSE IF \E x \in SeqSet(path) :
                    \/ IsZeroProb(g, get_probability_i(g, x))
                    \/ IsOneProb(g, get_probability_i(g, x))
        THEN Raise(g, QChessInvalidCommand)
        ELSE Slide(measure(g, dst, measure_fix, rnd))

blocked_slide(g, src, dst, path, measure_fix, rnd) ==
    IF g.err # OK THEN g
    ELSE IF \/ src = dst \/ ~(0 <= src /\ src < 64) \/ ~(0 <= dst /\ dst < 64)
            \/ BadPath(path, {src, dst})
         THEN Raise(g, QChessInvalidCommand)
    ELSE
    LET tag_src == g.pos2tag[src + 1]
        tag_dst == g.pos2tag[dst + 1]
        \* g1: after the measurement of dst
        Slide(g1) ==
            IF g1.err = OK /\ g1.last_measure = 0 /\ g1.pos2tag[src + 1] # None
            THEN apply_iswap(g1, src, dst, SeqSet(path), <<>>, FALSE)
            ELSE g1
    IN  IF tag_src = None \/ tag_dst = None \/ tag_src = tag_dst
        THEN Raise(g, QChessInvalidCommand)
        ELSE IF \/ IsZeroProb(g, get_probability_i(g, src))
                \/ IsOneProb(g, get_probability_i(g, dst))
        THEN Raise(g, QChessInvalidCommand)
        ELSE IF \E x \in SeqSet(path) :
                    \/ IsZeroProb(g, get_probability_i(g, x))
                    \/ IsOneProb(g, get_probability_i(g, x))
        THEN Raise(g, QChessInvalidCommand)
        ELSE Slide(measure(g, dst, measure_fix, rnd))

blocked_jump(g, src, dst, measure_fix, rnd) == blocked_slide(g, src, dst, <<>>, measure_fix, rnd)

\* _get_capture_slide_measure_M0_m1_key: the keys of outcome 1 (M1_list)
capture_slide_M1(g, src, dst, path) ==
    LET M0 == {<<FALSE, FALSE, FALSE>>, <<TRUE, TRUE, TRUE>>,
               <<TRUE, TRUE, FALSE>>, <<FALSE, TRUE, FALSE>>}
    IN  {key \in Keys(g) :
            LET bs == key[src + 1] = 1
                bt == key[dst + 1] = 1
                bp == \E x \in SeqSet(path) : key[x + 1] = 1
            IN  <<bp, bt, bs>> \notin M0}

\* get_capture_slide_measure_prob, as a multiple of 1/den
get_capture_slide_measure_prob(g, src, dst, path) ==
    SumAbsSq(g.coeff, capture_slide_M1(g, src, dst, path))

\* _capture_slide_measure returns 'meaningless move' instead of measuring
capture_slide_meaningless(g, src, dst, path) ==
    ZSign(get_capture_slide_measure_prob(g, src, dst, path)) <= 0

capture_slide_measure(g, src, dst, path, measure_fix, rnd) ==
    IF g.err # OK THEN g
    ELSE IF capture_slide_meaningless(g, src, dst, path) THEN g
    ELSE
    LET result == IF measure_fix # NoneM THEN measure_fix ELSE rnd
    IN  drop_coeff([g EXCEPT !.last_measure = result],
                   IF result = 0 THEN capture_slide_M1(g, src, dst, path)
                   ELSE Keys(g) \ capture_slide_M1(g, src, dst, path))

\* a relocation that sends the captured piece to the ancilla and leaves the
\* capturing piece where it is
capture_relocate_stay(g, src, dst, control, is_pawn) ==
    LET has == g.pos2tag[dst + 1] # None
        ancilla == Len(g.pos2tag)
    IN  IF has THEN apply_iswap(add_ancilla(g), dst, ancilla, control, <<>>, FALSE) ELSE g

\* a relocation that moves a pawn as it moves the other pieces
capture_relocate_always(g, src, dst, control, is_pawn) ==
    LET has == g.pos2tag[dst + 1] # None
        ancilla == Len(g.pos2tag)
        Freed(g2) ==
            IF g2.err # OK \/ ~has THEN g2
            ELSE IF \/ IsZeroProb(g2, get_probability_i(g2, ancilla))
                    \/ IsOneProb(g2, get_probability_i(g2, ancilla))
            THEN drop_ancilla(g2, {ancilla}) ELSE g2
        Taken(g1) == Freed(apply_iswap(g1, src, dst, control, <<>>, FALSE))
    IN  Taken(IF has THEN apply_iswap(add_ancilla(g), dst, ancilla, control, <<>>, FALSE) ELSE g)

\* the relocation both captures share once the measurement has said 1
capture_relocate(g, src, dst, control, is_pawn) ==
    LET has == g.pos2tag[dst + 1] # None
        ancilla == Len(g.pos2tag)
        \* g2: after the capturing piece has moved
        Freed(g2) ==
            IF g2.err # OK \/ ~has THEN g2
            ELSE IF \/ IsZeroProb(g2, get_probability_i(g2, ancilla))
                    \/ IsOneProb(g2, get_probability_i(g2, ancilla))
            THEN drop_ancilla(g2, {ancilla}) ELSE g2
        \* g1: after the captured piece has moved to the ancilla
        Taken(g1) ==
            Freed(IF is_pawn
                  THEN (IF has THEN apply_iswap(g1, src, dst, control, <<{ancilla}>>, FALSE)
                        ELSE g1)
                  ELSE apply_iswap(g1, src, dst, control, <<>>, FALSE))
    IN  Taken(IF has THEN apply_iswap(add_ancilla(g), dst, ancilla, control, <<>>, FALSE) ELSE g)

capture_jump(g, src, dst, measure_fix, rnd, is_pawn) ==
    IF g.err # OK THEN g
    ELSE IF src = dst \/ ~(0 <= src /\ src < 64) \/ ~(0 <= dst /\ dst < 64)
         THEN Raise(g, QChessInvalidCommand)
    ELSE
    LET tag_src == g.pos2tag[src + 1]
        tag_dst == g.pos2tag[dst + 1]
        \* g1: after the measurement of src
        Relocate(g1) ==
            IF g1.err = OK /\ g1.last_measure = 1
            THEN capture_relocate(g1, src, dst, {}, is_pawn)
            ELSE g1
    IN  IF \/ tag_src = None \/ tag_dst = None
           \/ IsUpper(tag_src) = IsUpper(tag_dst)
           \/ tag_src = tag_dst
           \/ (is_pawn /\ tag_src \notin {"p", "P"})
        THEN Raise(g, QChessInvalidCommand)
        ELSE IF IsZeroProb(g, get_probability_i(g, src))
        THEN Raise(g, QChessInvalidCommand)
        ELSE Relocate(measure(g, src, measure_fix, rnd))

capture_slide(g, src, dst, path, measure_fix, rnd, is_pawn) ==
    IF g.err # OK THEN g
    ELSE IF Len(path) = 0 THEN capture_jump(g, src, dst, measure_fix, rnd, FALSE)
    \* hf_convert_pos_to_int refuses a negative index; self.pos2tag[src] and
    \* self.pos2tag[dst] are read before the operands are checked
    ELSE IF src < 0 \/ dst < 0 \/ \E x \in SeqSet(path) : x < 0
         THEN Raise(g, QChessInvalidCommand)
    ELSE IF src >= Len(g.pos2tag) \/ dst >= Len(g.pos2tag) THEN Raise(g, IndexError)
    ELSE
    LET tag_src == g.pos2tag[src + 1]
        tag_dst == g.pos2tag[dst + 1]
        \* g1: after the measurement of the capture
        Relocate(g1) ==
            IF /\ g1.err = OK
               /\ ~capture_slide_meaningless(g, src, dst, path)
               /\ g1.last_measure = 1
            THEN capture_relocate(g1, src, dst, SeqSet(path), is_pawn)
            ELSE g1
    IN  IF \/ tag_src = None \/ tag_dst = None
           \/ IsUpper(tag_src) = IsUpper(tag_dst)
           \/ tag_src = tag_dst
           \/ (is_pawn /\ tag_src \notin {"p", "P"})
        THEN Raise(g, QChessInvalidCommand)
        ELSE IF \/ src = dst \/ ~(0 <= src /\ src < 64) \/ ~(0 <= dst /\ dst < 64)
                \/ BadPath(path, {src, dst})
        THEN Raise(g, QChessInvalidCommand)
        ELSE Relocate(capture_slide_measure(g, src, dst, path, measure_fix, rnd))

\* QChessSparseSimulator.add_piece / remove_piece
sim_add_piece(g, pos, tag) ==
    IF g.err # OK THEN g
    ELSE IF ~(0 <= pos /\ pos < Len(g.pos2tag)) THEN Raise(g, AssertionError)
    ELSE IF g.pos2tag[pos + 1] # None THEN Raise(g, AssertionError)
    ELSE [g EXCEPT !.pos2tag[pos + 1] = tag,
                   !.coeff = [k2 \in {hf_invert_str01(k, pos) : k \in Keys(g)} |->
                                 g.coeff[hf_invert_str01(k2, pos)]]]

sim_remove_piece(g, pos) ==
    IF g.err # OK THEN g
    ELSE IF ~(0 <= pos /\ pos < Len(g.pos2tag)) THEN Raise(g, AssertionError)
    ELSE IF ~IsOneProb(g, get_probability_i(g, pos)) THEN Raise(g, AssertionError)
    ELSE [g EXCEPT !.pos2tag[pos + 1] = None,
                   !.coeff = [k2 \in {hf_invert_str01(k, pos) : k \in Keys(g)} |->
                                 g.coeff[hf_invert_str01(k2, pos)]]]

----------------------------------------------------------------------------
(* ChessPosition and the helpers of QChessGame *)

NoPos == 0 - 1
FileChars == <<"a", "b", "c", "d", "e", "f", "g", "h">>
RankChars == <<"1", "2", "3", "4", "5", "6", "7", "8">>

File(pos) == pos % 8
Rank(pos) == pos \div 8
Pos(file, rank) == file + 8 * rank
\* ChessPosition.str_
PosStr(pos) == <<FileChars[File(pos) + 1], RankChars[Rank(pos) + 1]>>

IndexOf(seq, c) == CHOOSE n \in 1..Len(seq) : seq[n] = c
\* hf_convert_pos_to_int on a string: the index, or NoPos where the code raises
hf_convert_pos_to_int(x) ==
    IF Len(x) # 2 THEN NoPos
    ELSE IF ~(\E n \in 1..8 : FileChars[n] = x[1]) \/ ~(\E n \in 1..8 : RankChars[n] = x[2])
    THEN NoPos
    ELSE (IndexOf(RankChars, x[2]) - 1) * 8 + (IndexOf(FileChars, x[1]) - 1)

Abs(x) == IF x < 0 THEN 0 - x ELSE x
Min(x, y) == IF x < y THEN x ELSE y
Max(x, y) == IF x < y THEN y ELSE x

\* a turn test that always answers white
is_white_always(g) == TRUE

is_white(g) == g.current_step % 2 = 0

\* __getitem__: self[pos] is None, or (tag, prob)
TagAt(g, pos) == g.pos2tag[pos + 1]
ProbAt(g, pos) == get_probability_i(g, pos)
\* self[pos][1] > 1-_ZERO_EPS
Certain(g, pos) == IsOneProb(g, ProbAt(g, pos))

\* get_two_point_path raises for two cells on no common line
Aligned(src, dst) ==
    \/ File(src) = File(dst)
    \/ Rank(src) = Rank(dst)
    \/ Abs(File(src) - File(dst)) = Abs(Rank(src) - Rank(dst))

\* the cells strictly between src and dst, in the order the code lists them
RawPath(src, dst) ==
    LET file0 == File(src)
        rank0 == Rank(src)
        file1 == File(dst)
        rank1 == Rank(dst)
    IN  IF file0 = file1 /\ rank0 = rank1 THEN <<>>
        ELSE IF file0 = file1
        THEN [n \in 1..(Max(rank0, rank1) - Min(rank0, rank1) - 1) |->
                 Pos(file0, Min(rank0, rank1) + n)]
        ELSE IF rank0 = rank1
        THEN [n \in 1..(Max(file0, file1) - Min(file0, file1) - 1) |->
                 Pos(Min(file0, file1) + n, rank0)]
        ELSE [n \in 1..(Abs(file0 - file1) - 1) |->
                 Pos(file0 + (IF file0 < file1 THEN n ELSE 0 - n),
                     rank0 + (IF rank0 < rank1 THEN n ELSE 0 - n))]

\* QChessGame.get_two_point_path: only the cells that may be occupied
get_two_point_path(g, src, dst) ==
    LET Occupied(x) == TagAt(g, x) # None
    IN  SelectSeq(RawPath(src, dst), Occupied)

RECURSIVE SortedSeq(_)
\* sorted(set)
SortedSeq(S) ==
    IF S = {} THEN <<>>
    ELSE LET m == CHOOSE x \in S : \A y \in S : x <= y
         IN  <<m>> \o SortedSeq(S \ {m})

\* hf_weird_split_slide, hf_weird_merge_slide: <<path1, path2>>
hf_weird_split_slide(dst1, dst2, path1, path2) ==
    <<SortedSeq(SeqSet(path1) \ {dst2}), SortedSeq(SeqSet(path2) \ {dst1})>>
hf_weird_merge_slide(src1, src2, path1, path2) ==
    <<SortedSeq(SeqSet(path1) \ {src2}), SortedSeq(SeqSet(path2) \ {src1})>>

----------------------------------------------------------------------------
(* QChessGame: construction *)

\* QChessSparseSimulator.__init__: the set bits of state0 take the tags in order
NewSim(bits, tag_list) ==
    [coeff |-> [k \in {List([n \in 1..64 |-> IF (n - 1) \in bits THEN 1 ELSE 0])} |-> COne],
     den |-> ZOne,
     pos2tag |-> List([n \in 1..64 |->
                          IF (n - 1) \in bits
                          THEN tag_list[Cardinality({b \in bits : b <= n - 1})]
                          ELSE None]),
     last_measure |-> NoneM]

\* the keys of pawn_last_twostep after _reset: the cells of ranks 2 and 7
TwostepCells == {Pos(f, r) : f \in 0..7, r \in {1, 6}}

\* _reset(state0, tag_list)
reset(bits, tag_list) ==
    LET sim == NewSim(bits, tag_list)
    IN  [coeff |-> sim.coeff,
         den |-> sim.den,
         pos2tag |-> sim.pos2tag,
         last_measure |-> sim.last_measure,
         current_step |-> 0,
         prefix_measure |-> NoneM,
         pawn_last_twostep |-> [c \in TwostepCells |-> NoneM],
         tag_wcastling |-> <<TRUE, TRUE>>,
         tag_bcastling |-> <<TRUE, TRUE>>,
         history |-> <<>>,
         err |-> OK]

\* state0 = 0xFFFF00000000FFFF and 'RNBQKBNRPPPPPPPPpppppppprnbqkbnr'
StandardBits == (0..15) \cup (48..63)
StandardTags ==
    <<"R", "N", "B", "Q", "K", "B", "N", "R", "P", "P", "P", "P", "P", "P", "P", "P",
      "p", "p", "p", "p", "p", "p", "p", "p", "r", "n", "b", "q", "k", "b", "n", "r">>
StandardGame == reset(StandardBits, StandardTags)

\* QChessGame.add_piece(pos, tag, reset)
add_piece(g, pos, tag, doreset) ==
    IF doreset
    THEN sim_remove_piece(sim_add_piece(reset({IF pos # 1 THEN 1 ELSE 0}, <<"p">>), pos, tag),
                          IF pos # 1 THEN 1 ELSE 0)
    ELSE sim_add_piece(g, pos, tag)

RECURSIVE AddPieces(_, _)
AddPieces(g, pieces) ==
    IF pieces = <<>> THEN g
    ELSE AddPieces(add_piece(g, Head(pieces)[1], Head(pieces)[2], FALSE), Tail(pieces))

\* a custom board: add_piece(.., reset=True) for the first piece, add_piece for the others
CustomGame(pieces) ==
    AddPieces(add_piece(StandardGame, Head(pieces)[1], Head(pieces)[2], TRUE), Tail(pieces))

----------------------------------------------------------------------------
(* QChessGame: move classifiers.  A classifier returns the kind string, ""
   for an illegal move, or the name of the exception it raises. *)


\* tag.upper() if self.is_white else tag.lower()
OwnTag(g, tag) == IF is_white(g) THEN Upper(tag) ELSE Lower(tag)

\* _is_valid_move_preprocess: FALSE where the code returns ''
is_valid_move_preprocess(g, src, src1, dst, dst1, tag) ==
    /\ ~(TagAt(g, src) = None \/ TagAt(g, src) # OwnTag(g, tag) \/ src = dst)
    /\ src1 # NoPos =>
         ~(TagAt(g, src1) = None \/ TagAt(g, src1) # OwnTag(g, tag)
           \/ dst1 # NoPos \/ src1 = src \/ src1 = dst)
    /\ dst1 # NoPos => ~(src1 # NoPos \/ src = dst1 \/ dst = dst1)

\* the lambdas hf0 of the five piece classifiers
hf0(tag, x, y) ==
    LET df == File(x) - File(y)
        dr == Rank(x) - Rank(y)
    IN  CASE tag = "R" -> (df = 0) \/ (dr = 0)
          [] tag = "B" -> Abs(df) = Abs(dr)
          [] tag = "Q" -> Abs(df) = Abs(dr) \/ (df = 0) \/ (dr = 0)
          [] tag = "K" -> df \in {1, 0, 0 - 1} /\ dr \in {1, 0, 0 - 1}
          [] tag = "N" -> <<Abs(df), Abs(dr)>> \in {<<1, 2>>, <<2, 1>>}

IsSlider(tag) == tag \in {"R", "B", "Q"}

\* a classifier that does not look at the path
AnyCertainNone(g, path) == FALSE

\* any(self[x][1]>1-_ZERO_EPS for x in path)
AnyCertain(g, path) == \E n \in 1..Len(path) : Certain(g, path[n])

\* the common body of is_valid_move_rook/bishop/queen/king/knight
is_valid_move_piece(g, tag, src, src1, dst, dst1) ==
    IF ~is_valid_move_preprocess(g, src, src1, dst, dst1, tag) THEN ""
    ELSE IF \/ ~hf0(tag, src, dst)
            \/ (src1 # NoPos /\ ~hf0(tag, src1, dst))
            \/ (dst1 # NoPos /\ ~hf0(tag, src, dst1)) THEN ""
    ELSE IF /\ IsSlider(tag)
            /\ \/ AnyCertain(g, get_two_point_path(g, src, dst))
               \/ (src1 # NoPos /\ dst1 = NoPos /\ AnyCertain(g, get_two_point_path(g, src1, dst)))
               \/ (dst1 # NoPos /\ AnyCertain(g, get_two_point_path(g, src, dst1))) THEN ""
    ELSE LET tag_src == TagAt(g, src)
             tag_dst == TagAt(g, dst)
             tag_dst1 == IF dst1 = NoPos THEN None ELSE TagAt(g, dst1)
         IN  IF src1 = NoPos /\ dst1 = NoPos
             THEN IF tag_dst = None \/ tag_dst = tag_src
                  THEN (IF IsSlider(tag) THEN "normal-slide" ELSE "normal-jump")
                  ELSE IF IsLower(tag_dst) = IsLower(tag_src) /\ ~Certain(g, dst)
                  THEN (IF IsSlider(tag) THEN "blocked-slide" ELSE "blocked-jump")
                  ELSE IF IsLower(tag_dst) # IsLower(tag_src) THEN "capture"
                  ELSE ""
             ELSE IF /\ src1 = NoPos /\ dst1 # NoPos
                     /\ (tag_dst = None \/ tag_dst = tag_src)
                     /\ (tag_dst1 = None \/ tag_dst1 = tag_src) THEN "split"
             ELSE IF src1 # NoPos /\ dst1 = NoPos /\ (tag_dst = None \/ tag_dst = tag_src)
             THEN "merge"
             ELSE ""

is_valid_move_rook(g, src, src1, dst, dst1) == is_valid_move_piece(g, "R", src, src1, dst, dst1)
is_valid_move_bishop(g, src, src1, dst, dst1) == is_valid_move_piece(g, "B", src, src1, dst, dst1)
is_valid_move_queen(g, src, src1, dst, dst1) == is_valid_move_piece(g, "Q", src, src1, dst, dst1)
is_valid_move_king(g, src, src1, dst, dst1) == is_valid_move_piece(g, "K", src, src1, dst, dst1)
is_valid_move_knight(g, src, src1, dst, dst1) == is_valid_move_piece(g, "N", src, src1, dst, dst1)

\* self[(src.file, src.rank+-1)] of is_valid_move_pawn: "free" for None or an
\* uncertain piece, "certain", or the exception the lookup raises
PawnTagPath(g, src) ==
    LET key == File(src) + 8 * (Rank(src) + (IF is_white(g) THEN 1 ELSE 0 - 1))
    IN  IF key >= Len(g.pos2tag) THEN IndexError
        ELSE IF key < 0
        THEN (IF g.pos2tag[key + Len(g.pos2tag) + 1] = None THEN "free" ELSE AssertionError)
        ELSE IF TagAt(g, key) = None \/ ~Certain(g, key) THEN "free" ELSE "certain"

\* a classifier that lets a pawn reach the last rank without a promotion letter
is_valid_move_pawn_unpromoted(g, src, dst, promotion) ==
    LET white == is_white(g)
        fwd == IF white THEN 1 ELSE 0 - 1
        tag_src == TagAt(g, src)
        tag_dst == TagAt(g, dst)
        tag_path == PawnTagPath(g, src)
        side == Pos(File(dst), Rank(src))
        last == IF white THEN 7 ELSE 0
        oneAhead == Rank(dst) = Rank(src) + fwd /\ File(dst) = File(src)
        twoAhead == /\ Rank(dst) = Rank(src) + 2 * fwd
                    /\ File(dst) = File(src)
                    /\ Rank(src) = (IF white THEN 1 ELSE 6)
                    /\ tag_path = "free"
        diag == Rank(dst) = Rank(src) + fwd /\ File(dst) \in {File(src) - 1, File(src) + 1}
        sidePawn == /\ diag
                    /\ tag_dst = None
                    /\ TagAt(g, side) # None
                    /\ TagAt(g, side) = (IF white THEN "p" ELSE "P")
        ret == IF oneAhead /\ tag_dst = None THEN "one-step-move"
               ELSE IF oneAhead /\ tag_dst # None /\ ~Certain(g, dst) THEN "one-step-blocked-move"
               ELSE IF twoAhead /\ (tag_dst = None \/ (tag_dst = tag_src /\ ~Certain(g, dst)))
               THEN "two-step-move"
               ELSE IF twoAhead /\ tag_dst # None /\ ~Certain(g, dst) THEN "two-step-blocked-move"
               ELSE IF diag /\ tag_dst # None /\ IsLower(tag_dst) # IsLower(tag_src) THEN "capture"
               ELSE IF sidePawn /\ side \notin DOMAIN g.pawn_last_twostep THEN KeyError
               ELSE IF sidePawn /\ g.pawn_last_twostep[side] = g.current_step - 1 THEN "en-passant"
               ELSE ""
    IN  IF tag_path \in {IndexError, AssertionError} THEN tag_path
        ELSE IF tag_src = None \/ tag_src # (IF white THEN "P" ELSE "p") \/ src = dst THEN ""
        ELSE IF promotion # None /\ Rank(dst) # last THEN ""
        ELSE IF ret = KeyError THEN KeyError
        ELSE ret

\* a classifier that allows en passant on a pawn whenever it made its two-step
is_valid_move_pawn_any_ply(g, src, dst, promotion) ==
    LET white == is_white(g)
        fwd == IF white THEN 1 ELSE 0 - 1
        tag_src == TagAt(g, src)
        tag_dst == TagAt(g, dst)
        tag_path == PawnTagPath(g, src)
        side == Pos(File(dst), Rank(src))
        last == IF white THEN 7 ELSE 0
        oneAhead == Rank(dst) = Rank(src) + fwd /\ File(dst) = File(src)
        twoAhead == /\ Rank(dst) = Rank(src) + 2 * fwd
                    /\ File(dst) = File(src)
                    /\ Rank(src) = (IF white THEN 1 ELSE 6)
                    /\ tag_path = "free"
        diag == Rank(dst) = Rank(src) + fwd /\ File(dst) \in {File(src) - 1, File(src) + 1}
        sidePawn == /\ diag
                    /\ tag_dst = None
                    /\ TagAt(g, side) # None
                    /\ TagAt(g, side) = (IF white THEN "p" ELSE "P")
        ret == IF oneAhead /\ tag_dst = None THEN "one-step-move"
               ELSE IF oneAhead /\ tag_dst # None /\ ~Certain(g, dst) THEN "one-step-blocked-move"
               ELSE IF twoAhead /\ (tag_dst = None \/ (tag_dst = tag_src /\ ~Certain(g, dst)))
               THEN "two-step-move"
               ELSE IF twoAhead /\ tag_dst # None /\ ~Certain(g, dst) THEN "two-step-blocked-move"
               ELSE IF diag /\ tag_dst # None /\ IsLower(tag_dst) # IsLower(tag_src) THEN "capture"
               ELSE IF sidePawn /\ side \notin DOMAIN g.pawn_last_twostep THEN KeyError
               ELSE IF sidePawn THEN "en-passant"
               ELSE ""
    IN  IF tag_path \in {IndexError, AssertionError} THEN tag_path
        ELSE IF tag_src = None \/ tag_src # (IF white THEN "P" ELSE "p") \/ src = dst THEN ""
        ELSE IF promotion # None /\ Rank(dst) # last THEN ""
        ELSE IF ret = KeyError THEN KeyError
        ELSE IF Rank(dst) = last /\ (promotion = None \/ promotion \notin {"r", "n", "b", "q"}) THEN ""
        ELSE ret

\* promotion is None or a one-letter string
is_valid_move_pawn(g, src, dst, promotion) ==
    LET white == is_white(g)
        fwd == IF white THEN 1 ELSE 0 - 1
        tag_src == TagAt(g, src)
        tag_dst == TagAt(g, dst)
        tag_path == PawnTagPath(g, src)
        side == Pos(File(dst), Rank(src))
        last == IF white THEN 7 ELSE 0
        oneAhead == Rank(dst) = Rank(src) + fwd /\ File(dst) = File(src)
        twoAhead == /\ Rank(dst) = Rank(src) + 2 * fwd
                    /\ File(dst) = File(src)
                    /\ Rank(src) = (IF white THEN 1 ELSE 6)
                    /\ tag_path = "free"
        diag == Rank(dst) = Rank(src) + fwd /\ File(dst) \in {File(src) - 1, File(src) + 1}
        sidePawn == /\ diag
                    /\ tag_dst = None
                    /\ TagAt(g, side) # None
                    /\ TagAt(g, side) = (IF white THEN "p" ELSE "P")
        ret == IF oneAhead /\ tag_dst = None THEN "one-step-move"
               ELSE IF oneAhead /\ tag_dst # None /\ ~Certain(g, dst) THEN "one-step-blocked-move"
               ELSE IF twoAhead /\ (tag_dst = None \/ (tag_dst = tag_src /\ ~Certain(g, dst)))
               THEN "two-step-move"
               ELSE IF twoAhead /\ tag_dst # None /\ ~Certain(g, dst) THEN "two-step-blocked-move"
               ELSE IF diag /\ tag_dst # None /\ IsLower(tag_dst) # IsLower(tag_src) THEN "capture"
               ELSE IF sidePawn /\ side \notin DOMAIN g.pawn_last_twostep THEN KeyError
               ELSE IF sidePawn /\ g.pawn_last_twostep[side] = g.current_step - 1 THEN "en-passant"
               ELSE ""
    IN  IF tag_path \in {IndexError, AssertionError} THEN tag_path
        ELSE IF tag_src = None \/ tag_src # (IF white THEN "P" ELSE "p") \/ src = dst THEN ""
        ELSE IF promotion # None /\ Rank(dst) # last THEN ""
        ELSE IF ret = KeyError THEN KeyError
        ELSE IF Rank(dst) = last /\ (promotion = None \/ promotion \notin {"r", "n", "b", "q"}) THEN ""
        ELSE ret

is_valid_castling(g, srcK, srcR, dstK, dstR) ==
    LET white == is_white(g)
        flags == IF white THEN g.tag_wcastling ELSE g.tag_bcastling
        dir == IF File(dstK) > File(srcK) THEN 1 ELSE 0 - 1
    IN  IF \/ srcK = srcR
           \/ TagAt(g, srcK) = None
           \/ TagAt(g, srcK) # (IF white THEN "K" ELSE "k")
           \/ ~Certain(g, srcK)
           \/ srcK # (IF white THEN Pos(4, 0) ELSE Pos(4, 7))
           \/ TagAt(g, srcR) = None
           \/ TagAt(g, srcR) # (IF white THEN "R" ELSE "r")
           \/ ~Certain(g, srcR)
           \/ srcR \notin (IF white THEN {Pos(0, 0), Pos(7, 0)} ELSE {Pos(0, 7), Pos(7, 7)})
           \/ ~flags[IF File(srcR) = 0 THEN 1 ELSE 2]
        THEN ""
        ELSE IF /\ dstK = Pos(File(srcK) + 2 * dir, Rank(srcK))
                /\ dstR = Pos(File(srcK) + dir, Rank(srcK))
                /\ get_two_point_path(g, srcK, srcR) = <<>>
        THEN "castling"
        ELSE ""

----------------------------------------------------------------------------
(* QChessGame: moves.  rnd is the outcome of the random draw of a measurement
   that is not forced. *)

\* is_measured_wrapper: runs before the wrapped move
is_measured_wrapper(g) == [g EXCEPT !.last_measure = NoneM]

\* self.get_prefix_measure(): the value is g.prefix_measure, the game is left with None
get_prefix_measure(g) == [g EXCEPT !.prefix_measure = NoneM]

\* d[dst] = d.pop(src) on pawn_last_twostep
TwostepMove(g, src, dst) ==
    IF g.err # OK THEN g
    ELSE IF src \notin DOMAIN g.pawn_last_twostep THEN Raise(g, KeyError)
    ELSE LET d == g.pawn_last_twostep
         IN  [g EXCEPT !.pawn_last_twostep =
                 [c \in (DOMAIN d \ {src}) \cup {dst} |-> IF c = dst THEN d[src] ELSE d[c]]]

\* d[key] = value
TwostepSet(g, key, value) ==
    IF g.err # OK THEN g
    ELSE LET d == g.pawn_last_twostep
         IN  [g EXCEPT !.pawn_last_twostep =
                 [c \in DOMAIN d \cup {key} |-> IF c = key THEN value ELSE d[c]]]

\* d.pop(key)
TwostepPop(g, key) ==
    IF g.err # OK THEN g
    ELSE IF key \notin DOMAIN g.pawn_last_twostep THEN Raise(g, KeyError)
    ELSE LET d == g.pawn_last_twostep
         IN  [g EXCEPT !.pawn_last_twostep = [c \in DOMAIN d \ {key} |-> d[c]]]

\* the two-step branches of move_pawn
PawnTwoStep(g, src, dst, blocked, rnd) ==
    IF src \notin DOMAIN g.pawn_last_twostep THEN Raise(g, KeyError)
    ELSE IF g.pawn_last_twostep[src] # NoneM THEN Raise(g, AssertionError)
    ELSE LET tmp0 == Pos(File(src), Rank(src) + (IF is_white(g) THEN 1 ELSE 0 - 1))
         IN  IF TagAt(g, tmp0) # None /\ Certain(g, tmp0) THEN Raise(g, AssertionError)
             ELSE LET path == IF TagAt(g, tmp0) # None THEN <<tmp0>> ELSE <<>>
                      \* g1: after the slide
                      Moved(g1) ==
                          IF g1.err # OK \/ (blocked /\ g1.last_measure # 0) THEN g1
                          ELSE IF Len(path) = 0
                          THEN TwostepPop(TwostepSet(g1, dst, g1.current_step), src)
                          ELSE TwostepSet(g1, dst, g1.current_step)
                  IN  Moved(IF blocked
                            THEN blocked_slide(get_prefix_measure(g), src, dst, path,
                                               g.prefix_measure, rnd)
                            ELSE normal_slide(g, src, dst, path))

\* a move_pawn whose en passant leaves the pawn on the cell of the pawn it has taken
move_pawn_kind_passed(g0, kind, src, dst, rnd) ==
    LET fix == g0.prefix_measure
        \* g1: after the blocked jump
        Stepped(g1) ==
            IF g1.err = OK /\ g1.last_measure = 0 THEN TwostepMove(g1, src, dst) ELSE g1
        \* g1: after the capture and the move of the two-step record
        Captured(g1) ==
            IF g1.err = OK /\ TagAt(g1, src) # None
            THEN TwostepSet(g1, src, g1.pawn_last_twostep[dst])
            ELSE g1
    IN  CASE kind = "one-step-move" ->
               TwostepMove(normal_jump(g0, src, dst), src, dst)
          [] kind = "one-step-blocked-move" ->
               Stepped(blocked_jump(get_prefix_measure(g0), src, dst, fix, rnd))
          [] kind = "two-step-move" -> PawnTwoStep(g0, src, dst, FALSE, rnd)
          [] kind = "two-step-blocked-move" -> PawnTwoStep(g0, src, dst, TRUE, rnd)
          [] kind = "capture" ->
               Captured(TwostepMove(
                   capture_jump(get_prefix_measure(g0), src, dst, fix, rnd, TRUE),
                   src, dst))
          [] kind = "en-passant" ->
               LET tmp0 == Pos(File(dst), Rank(src))
               IN  TwostepMove(
                       capture_jump(get_prefix_measure(g0), src, tmp0, fix, rnd, TRUE),
                       src, dst)
          [] kind \in {KeyError, IndexError, AssertionError} -> Raise(g0, kind)
          [] OTHER -> Raise(g0, QChessInvalidCommand)

\* the branches of move_pawn on what is_valid_move_pawn returned; g0 is the game
\* after is_measured_wrapper
move_pawn_kind(g0, kind, src, dst, rnd) ==
    LET fix == g0.prefix_measure
        \* g1: after the blocked jump
        Stepped(g1) ==
            IF g1.err = OK /\ g1.last_measure = 0 THEN TwostepMove(g1, src, dst) ELSE g1
        \* g1: after the capture and the move of the two-step record
        Captured(g1) ==
            IF g1.err = OK /\ TagAt(g1, src) # None
            THEN TwostepSet(g1, src, g1.pawn_last_twostep[dst])
            ELSE g1
    IN  CASE kind = "one-step-move" ->
               TwostepMove(normal_jump(g0, src, dst), src, dst)
          [] kind = "one-step-blocked-move" ->
               Stepped(blocked_jump(get_prefix_measure(g0), src, dst, fix, rnd))
          [] kind = "two-step-move" -> PawnTwoStep(g0, src, dst, FALSE, rnd)
          [] kind = "two-step-blocked-move" -> PawnTwoStep(g0, src, dst, TRUE, rnd)
          [] kind = "capture" ->
               Captured(TwostepMove(
                   capture_jump(get_prefix_measure(g0), src, dst, fix, rnd, TRUE),
                   src, dst))
          [] kind = "en-passant" ->
               LET tmp0 == Pos(File(dst), Rank(src))
               IN  TwostepMove(
                       normal_jump(
                           capture_jump(get_prefix_measure(g0), src, tmp0, fix, rnd, TRUE),
                           tmp0, dst),
                       src, dst)
          [] kind \in {KeyError, IndexError, AssertionError} -> Raise(g0, kind)
          [] OTHER -> Raise(g0, QChessInvalidCommand)

\* a promotion that makes the pawn a king
move_pawn_crowns(g, src, dst, promotion, rnd) ==
    LET Promoted(moved) ==
            IF promotion # None
            THEN change_tag(moved, dst, IF is_white(moved) THEN "K" ELSE "k")
            ELSE moved
    IN  Promoted(move_pawn_kind(is_measured_wrapper(g),
                                is_valid_move_pawn(is_measured_wrapper(g), src, dst, promotion),
                                src, dst, rnd))

move_pawn(g, src, dst, promotion, rnd) ==
    LET Promoted(moved) ==
            IF promotion # None
            THEN change_tag(moved, dst,
                            IF is_white(moved) THEN Upper(promotion) ELSE Lower(promotion))
            ELSE moved
    IN  Promoted(move_pawn_kind(is_measured_wrapper(g),
                                is_valid_move_pawn(is_measured_wrapper(g), src, dst, promotion),
                                src, dst, rnd))

\* a castling that leaves the flags of the mover as they were
move_castling_keeps_rights(g, srcK, srcR, dstK, dstR) ==
    IF is_valid_castling(g, srcK, srcR, dstK, dstR) = "castling"
    THEN normal_jump(normal_jump(g, srcK, dstK), srcR, dstR)
    ELSE Raise(g, QChessInvalidCommand)

move_castling(g, srcK, srcR, dstK, dstR) ==
    LET \* g1: after the two jumps
        Castled(g1) ==
            IF g1.err # OK THEN g1
            ELSE IF is_white(g1) THEN [g1 EXCEPT !.tag_wcastling = <<FALSE, FALSE>>]
            ELSE [g1 EXCEPT !.tag_bcastling = <<FALSE, FALSE>>]
    IN  IF is_valid_castling(g, srcK, srcR, dstK, dstR) = "castling"
        THEN Castled(normal_jump(normal_jump(g, srcK, dstK), srcR, dstR))
        ELSE Raise(g, QChessInvalidCommand)

\* the common body of move_rook, move_bishop, move_queen up to the raise; g0 is
\* the game after is_measured_wrapper, kind what is_valid_move_xxx returns
move_slide(g0, kind, src, src1, dst, dst1, rnd) ==
    IF \/ ~Aligned(src, dst)
       \/ (src1 # NoPos /\ ~Aligned(src1, dst))
       \/ (dst1 # NoPos /\ ~Aligned(src, dst1))
    THEN Raise(g0, QChessInvalidCommand)
    ELSE LET path0 == get_two_point_path(g0, src, dst)
             path1 == IF dst1 # NoPos THEN get_two_point_path(g0, src, dst1)
                      ELSE IF src1 # NoPos THEN get_two_point_path(g0, src1, dst)
                      ELSE <<>>
             fix == g0.prefix_measure
         IN  CASE kind = "normal-slide" -> normal_slide(g0, src, dst, path0)
               [] kind = "blocked-slide" ->
                    blocked_slide(get_prefix_measure(g0), src, dst, path0, fix, rnd)
               [] kind = "capture" ->
                    capture_slide(get_prefix_measure(g0), src, dst, path0, fix, rnd, FALSE)
               [] kind = "split" ->
                    split_slide(g0, src, dst, dst1,
                                hf_weird_split_slide(dst, dst1, path0, path1)[1],
                                hf_weird_split_slide(dst, dst1, path0, path1)[2])
               [] kind = "merge" ->
                    merge_slide(g0, src, src1, dst,
                                hf_weird_merge_slide(src, src1, path0, path1)[1],
                                hf_weird_merge_slide(src, src1, path0, path1)[2])
               [] OTHER -> Raise(g0, QChessInvalidCommand)

\* the common body of move_king and move_knight up to the raise; g0 is the game
\* after is_measured_wrapper, kind what is_valid_move_xxx returns
move_jump(g0, kind, src, src1, dst, dst1, rnd) ==
    LET fix == g0.prefix_measure
    IN  CASE kind = "normal-jump" -> normal_jump(g0, src, dst)
          [] kind = "blocked-jump" ->
               blocked_jump(get_prefix_measure(g0), src, dst, fix, rnd)
          [] kind = "capture" ->
               capture_jump(get_prefix_measure(g0), src, dst, fix, rnd, FALSE)
          [] kind = "split" -> split_jump(g0, src, dst, dst1)
          [] kind = "merge" -> merge_jump(g0, src, src1, dst)
          [] OTHER -> Raise(g0, QChessInvalidCommand)

\* self[src] is None or self[src][1] <= 1-_ZERO_EPS
Vacated(g, src) == TagAt(g, src) = None \/ ~Certain(g, src)

\* tag_wcastling[0 if (src.file) else 1] = False
WhiteRookIndex(src) == IF File(src) # 0 THEN 1 ELSE 2
\* tag_bcastling[1 if (src.file) else 0] = False
BlackRookIndex(src) == IF File(src) # 0 THEN 2 ELSE 1

move_rook(g, src, src1, dst, dst1, rnd) ==
    LET \* g2: after the white flag; vacated: the test on the board after the move
        Black(g2, left) ==
            IF src \in {Pos(0, 7), Pos(7, 7)} /\ left
            THEN [g2 EXCEPT !.tag_bcastling[BlackRookIndex(src)] = FALSE]
            ELSE g2
        \* g1: after the move
        White(g1) ==
            IF g1.err # OK THEN g1
            ELSE Black(IF src \in {Pos(0, 0), Pos(7, 0)} /\ Vacated(g1, src)
                       THEN [g1 EXCEPT !.tag_wcastling[WhiteRookIndex(src)] = FALSE]
                       ELSE g1,
                       Vacated(g1, src))
    IN  White(move_slide(is_measured_wrapper(g),
                         is_valid_move_rook(is_measured_wrapper(g), src, src1, dst, dst1),
                         src, src1, dst, dst1, rnd))

move_bishop(g, src, src1, dst, dst1, rnd) ==
    move_slide(is_measured_wrapper(g),
               is_valid_move_bishop(is_measured_wrapper(g), src, src1, dst, dst1),
               src, src1, dst, dst1, rnd)

move_queen(g, src, src1, dst, dst1, rnd) ==
    move_slide(is_measured_wrapper(g),
               is_valid_move_queen(is_measured_wrapper(g), src, src1, dst, dst1),
               src, src1, dst, dst1, rnd)

move_king(g, src, src1, dst, dst1, rnd) ==
    LET \* g1: after the move
        Flags(g1) ==
            IF g1.err # OK THEN g1
            ELSE IF src \in {Pos(4, 0), Pos(4, 7)} /\ Vacated(g1, src)
            THEN (IF is_white(g1) THEN [g1 EXCEPT !.tag_wcastling = <<FALSE, FALSE>>]
                  ELSE [g1 EXCEPT !.tag_bcastling = <<FALSE, FALSE>>])
            ELSE g1
    IN  Flags(move_jump(is_measured_wrapper(g),
                        is_valid_move_king(is_measured_wrapper(g), src, src1, dst, dst1),
                        src, src1, dst, dst1, rnd))

move_knight(g, src, src1, dst, dst1, rnd) ==
    move_jump(is_measured_wrapper(g),
              is_valid_move_knight(is_measured_wrapper(g), src, src1, dst, dst1),
              src, src1, dst, dst1, rnd)

----------------------------------------------------------------------------
(* Commands.  A command is a sequence of one-character strings. *)

RECURSIVE StripLeft(_)
StripLeft(x) == IF x # <<>> /\ Head(x) = " " THEN StripLeft(Tail(x)) ELSE x
RECURSIVE StripRight(_)
StripRight(x) ==
    IF x # <<>> /\ x[Len(x)] = " " THEN StripRight(SubSeq(x, 1, Len(x) - 1)) ELSE x
\* str.strip()
Strip(x) == StripRight(StripLeft(x))

RECURSIVE SplitComma(_, _)
\* str.split(','): cur is the field being read
SplitComma(x, cur) ==
    IF x = <<>> THEN <<cur>>
    ELSE IF Head(x) = "," THEN <<cur>> \o SplitComma(Tail(x), <<>>)
    ELSE SplitComma(Tail(x), Append(cur, Head(x)))

\* args[2] in '01': the substrings of '01'
In01(x) == x \in {<<>>, <<"0">>, <<"1">>, <<"0", "1">>}

\* _parse_cmd: err is the exception raised, or OK with the fields of the dict;
\* src1 and dst1 are <<>> for None
ParseError(e) ==
    [err |-> e, prefix_measure |-> NoneM, src |-> <<>>, dst |-> <<>>,
     src1 |-> <<>>, dst1 |-> <<>>, promotion |-> None]

parse_cmd(cmd) ==
    LET args0 == SplitComma(Strip(cmd), <<>>)
        three == Len(args0) = 3
        args == IF three THEN SubSeq(args0, 1, 2) ELSE args0
    IN  IF three /\ ~In01(args0[3]) THEN ParseError(QChessInvalidCommand)
        ELSE IF three /\ args0[3] = <<>> THEN ParseError(ValueError)
        ELSE IF Len(args) # 2 THEN ParseError(QChessInvalidCommand)
        ELSE IF <<Len(args[1]), Len(args[2])>> \notin
                    {<<2, 2>>, <<2, 3>>, <<2, 4>>, <<4, 2>>, <<4, 4>>}
        THEN ParseError(QChessInvalidCommand)
        ELSE LET tmp0 == IF Len(args[2]) = 3 THEN Lower(args[2][3]) ELSE None
             IN  IF Len(args[2]) = 3 /\ tmp0 \notin {"q", "r", "b", "n"}
                 THEN ParseError(QChessInvalidCommand)
                 ELSE [err |-> OK,
                       prefix_measure |->
                           IF ~three THEN NoneM
                           ELSE IF args0[3] = <<"0">> THEN 0 ELSE 1,
                       src |-> SubSeq(args[1], 1, 2),
                       dst |-> SubSeq(args[2], 1, 2),
                       src1 |-> IF Len(args[1]) = 4 THEN SubSeq(args[1], 3, 4) ELSE <<>>,
                       dst1 |-> IF Len(args[2]) = 4 THEN SubSeq(args[2], 3, 4) ELSE <<>>,
                       promotion |-> tmp0]

\* hf_str_none_to_position on an optional square
OptPos(x) == IF x = <<>> THEN NoPos ELSE hf_convert_pos_to_int(x)

\* a history that records the bare command
MeasureSuffixNone(m) == <<>>

\* the suffix run_short_cmd appends to the recorded command
MeasureSuffix(m) == IF m = NoneM THEN <<>> ELSE <<",", IF m = 0 THEN "0" ELSE "1">>

\* run_short_cmd once the command is parsed
run_short_cmd_args(g, cmd, rnd, args) ==
    LET \* g1: after set_prefix_measure
        g1 == IF args.prefix_measure # NoneM
              THEN [g EXCEPT !.prefix_measure = args.prefix_measure]
              ELSE g
        src == hf_convert_pos_to_int(args.src)
        src1 == OptPos(args.src1)
        dst == hf_convert_pos_to_int(args.dst)
        dst1 == OptPos(args.dst1)
        tag_src == TagAt(g1, src)
        merge == args.src1 # <<>> /\ args.dst1 = <<>>
        castling == args.src1 # <<>> /\ args.dst1 # <<>>
        badSquare == dst = NoPos \/ (args.src1 # <<>> /\ src1 = NoPos)
                     \/ (args.dst1 # <<>> /\ dst1 = NoPos)
        \* g2: after the move
        Record(g2) ==
            IF g2.err # OK THEN g2
            ELSE [g2 EXCEPT !.current_step = @ + 1,
                            !.prefix_measure = NoneM,
                            !.history = Append(@, IF args.prefix_measure # NoneM THEN cmd
                                                  ELSE cmd \o MeasureSuffix(g2.last_measure))]
    IN  IF args.err # OK THEN Raise(g, args.err)
        ELSE IF src = NoPos THEN Raise(g1, QChessInvalidCommand)
        ELSE IF tag_src = None \/ IsUpper(tag_src) # is_white(g1)
        THEN Raise(g1, QChessInvalidCommand)
        ELSE IF merge /\ src1 = NoPos THEN Raise(g1, QChessInvalidCommand)
        ELSE IF merge /\ TagAt(g1, src1) = None THEN Raise(g1, TypeError)
        ELSE IF merge /\ TagAt(g1, src1) # tag_src THEN Raise(g1, QChessInvalidCommand)
        ELSE Record(
            IF castling
            THEN (IF badSquare THEN Raise(g1, QChessInvalidCommand)
                  ELSE move_castling(g1, src, src1, dst, dst1))
            ELSE IF tag_src \in {"P", "p"}
            THEN (IF dst = NoPos
                  THEN Raise(is_measured_wrapper(g1), QChessInvalidCommand)
                  ELSE move_pawn(g1, src, dst, args.promotion, rnd))
            ELSE IF tag_src \notin {"R", "r", "B", "b", "Q", "q", "K", "k", "N", "n"}
            THEN Raise(g1, QChessInvalidCommand)
            ELSE IF badSquare THEN Raise(is_measured_wrapper(g1), QChessInvalidCommand)
            ELSE CASE tag_src \in {"R", "r"} -> move_rook(g1, src, src1, dst, dst1, rnd)
                   [] tag_src \in {"B", "b"} -> move_bishop(g1, src, src1, dst, dst1, rnd)
                   [] tag_src \in {"Q", "q"} -> move_queen(g1, src, src1, dst, dst1, rnd)
                   [] tag_src \in {"K", "k"} -> move_king(g1, src, src1, dst, dst1, rnd)
                   [] tag_src \in {"N", "n"} -> move_knight(g1, src, src1, dst, dst1, rnd))

run_short_cmd(g, cmd, rnd) == run_short_cmd_args(g, cmd, rnd, parse_cmd(cmd))

RECURSIVE ReplayFrom(_, _, _, _)
\* for x in history: self.run_short_cmd(x), from the n-th entry on; rnds[n] is
\* the draw of the n-th command
ReplayFrom(g, history, rnds, n) ==
    IF n > Len(history) \/ g.err # OK THEN g
    ELSE ReplayFrom(run_short_cmd(g, history[n], rnds[n]), history, rnds, n + 1)

Replay(g, history, rnds) == ReplayFrom(g, history, rnds, 1)

revert_cmd(g, step, rnds) ==
    IF ~(step >= 1) THEN Raise(g, AssertionError)
    ELSE LET n == Min(step, Len(g.history))
         IN  IF n > 0
             THEN Replay(StandardGame, SubSeq(g.history, 1, Len(g.history) - n), rnds)
             ELSE g

\* a finish test that also looks at the ancilla cells
is_finish_or_not_all_cells(g) ==
    LET tmp0 == \E n \in 1..Len(g.pos2tag) : g.pos2tag[n] = "K"
        tmp1 == \E n \in 1..Len(g.pos2tag) : g.pos2tag[n] = "k"
    IN  IF tmp0 /\ tmp1 THEN "continue"
        ELSE IF tmp0 /\ ~tmp1 THEN "white"
        ELSE IF ~tmp0 /\ tmp1 THEN "black"
        ELSE "draw"

is_finish_or_not(g) ==
    LET tmp0 == \E n \in 1..64 : g.pos2tag[n] = "K"
        tmp1 == \E n \in 1..64 : g.pos2tag[n] = "k"
    IN  IF tmp0 /\ tmp1 THEN "continue"
        ELSE IF tmp0 /\ ~tmp1 THEN "white"
        ELSE IF ~tmp0 /\ tmp1 THEN "black"
        ELSE "draw"

----------------------------------------------------------------------------
(* Enumeration of the moves of the side to move *)

AllCells == [n \in 1..64 |-> n - 1]

RECURSIVE Flatten(_)
Flatten(ss) == IF ss = <<>> THEN <<>> ELSE Head(ss) \o Flatten(Tail(ss))

\* a command written with its two cells in the other order
CmdMoveReversed(src, dst) == PosStr(dst) \o <<",">> \o PosStr(src)

\* the four command shapes the enumerator formats
CmdMove(src, dst) == PosStr(src) \o <<",">> \o PosStr(dst)
CmdPromotion(src, dst, y) == PosStr(src) \o <<",">> \o PosStr(dst) \o <<y>>
CmdSplit(src, dst, dst1) == PosStr(src) \o <<",">> \o PosStr(dst) \o PosStr(dst1)
CmdMerge(src, src1, dst) == PosStr(src) \o PosStr(src1) \o <<",">> \o PosStr(dst)

PromotionLetters == <<"q", "r", "b", "n">>

\* tmp0 of the pawn branches: the three cells ahead, then the two-step cell
PawnTargets(g, src) ==
    LET fwd == IF TagAt(g, src) = "P" THEN 1 ELSE 0 - 1
        lo == Max(0, File(src) - 1)
        hi == Min(7, File(src) + 1)
        ahead == [n \in 1..(hi - lo + 1) |-> Pos(lo + n - 1, Rank(src) + fwd)]
    IN  IF Rank(src) = (IF TagAt(g, src) = "P" THEN 1 ELSE 6)
        THEN Append(ahead, Pos(File(src), Rank(src) + 2 * fwd))
        ELSE ahead

\* the pawn branches of _get_all_available_move_i (src holds a pawn off its last rank)
PawnMoves(g, src) ==
    LET tmp0 == PawnTargets(g, src)
        Plain(x) == is_valid_move_pawn(g, src, x, None) # ""
    IN  IF Rank(src) = (IF TagAt(g, src) = "P" THEN 6 ELSE 1)
        THEN Flatten([n \in 1..Len(tmp0) |->
                 LET Promo(y) == is_valid_move_pawn(g, src, tmp0[n], y) # ""
                     ys == SelectSeq(PromotionLetters, Promo)
                 IN  [m \in 1..Len(ys) |-> CmdPromotion(src, tmp0[n], ys[m])]])
        ELSE LET xs == SelectSeq(tmp0, Plain)
             IN  [n \in 1..Len(xs) |-> CmdMove(src, xs[n])]

\* the castling templates of the king branch
CastlingTemplates ==
    <<<<Pos(4, 0), Pos(0, 0), Pos(2, 0), Pos(3, 0)>>, <<Pos(4, 0), Pos(7, 0), Pos(6, 0), Pos(5, 0)>>,
      <<Pos(4, 7), Pos(0, 7), Pos(2, 7), Pos(3, 7)>>, <<Pos(4, 7), Pos(7, 7), Pos(6, 7), Pos(5, 7)>>>>

\* the piece branches of _get_all_available_move_i
PieceMoves(g, src) ==
    LET tag_src == TagAt(g, src)
        tag == Upper(tag_src)
        Reach(x) == x # src /\ hf0(tag, x, src)
        dst_list == SelectSeq(AllCells, Reach)
        Single(x) == is_valid_move_piece(g, tag, src, NoPos, x, NoPos) # ""
        singles == SelectSeq(dst_list, Single)
        splits == Flatten([n \in 1..Len(dst_list) |->
                     LET x == dst_list[n]
                         Second(y) == x # y /\ is_valid_move_piece(g, tag, src, NoPos, x, y) # ""
                         ys == SelectSeq(dst_list, Second)
                     IN  [m \in 1..Len(ys) |-> CmdSplit(src, x, ys[m])]])
        merges == Flatten([n \in 1..64 |->
                     LET x == n - 1
                         Target(y) == /\ x # y
                                      /\ hf0(tag, x, y)
                                      /\ is_valid_move_piece(g, tag, src, x, y, NoPos) # ""
                         ys == SelectSeq(dst_list, Target)
                     IN  IF x # src /\ TagAt(g, x) # None /\ TagAt(g, x) = tag_src
                         THEN [m \in 1..Len(ys) |-> CmdMerge(src, x, ys[m])]
                         ELSE <<>>])
        Castle(t) == is_valid_castling(g, t[1], t[2], t[3], t[4]) # ""
        castles == SelectSeq(CastlingTemplates, Castle)
    IN  [n \in 1..Len(singles) |-> CmdMove(src, singles[n])] \o splits \o merges \o
        (IF tag = "K" /\ src \in {Pos(4, 0), Pos(4, 7)}
         THEN [n \in 1..Len(castles) |->
                  PosStr(castles[n][1]) \o PosStr(castles[n][2]) \o <<",">> \o
                  PosStr(castles[n][3]) \o PosStr(castles[n][4])]
         ELSE <<>>)

\* _get_all_available_move_i raises: the assert on a pawn on its last rank, or
\* an exception of is_valid_move_pawn
MoveIRaises(g, src) ==
    /\ TagAt(g, src) \in {"P", "p"}
    /\ IsUpper(TagAt(g, src)) = is_white(g)
    /\ \/ Rank(src) = (IF TagAt(g, src) = "P" THEN 7 ELSE 0)
       \/ \E n \in 1..Len(PawnTargets(g, src)) : \E y \in {None, "q", "r", "b", "n"} :
             /\ (y = None) = (Rank(src) # (IF TagAt(g, src) = "P" THEN 6 ELSE 1))
             /\ is_valid_move_pawn(g, src, PawnTargets(g, src)[n], y)
                    \in {KeyError, IndexError, AssertionError}

get_all_available_move_i(g, src) ==
    LET tag_src == TagAt(g, src)
    IN  IF tag_src = None \/ IsUpper(tag_src) # is_white(g) THEN <<>>
        ELSE IF tag_src \in {"P", "p"} THEN PawnMoves(g, src)
        ELSE IF Upper(tag_src) \in {"R", "B", "Q", "K", "N"} THEN PieceMoves(g, src)
        ELSE <<>>

\* get_all_available_move raises when some source raises
get_all_available_move_raises(g) == \E x \in 0..63 : MoveIRaises(g, x)

\* an enumeration that goes through the cells from 63 down to 0
get_all_available_move_descending(g) ==
    Flatten([n \in 1..64 |-> get_all_available_move_i(g, 64 - n)])

get_all_available_move(g) ==
    Flatten([n \in 1..64 |-> get_all_available_move_i(g, n - 1)])

----------------------------------------------------------------------------
(* The games played.  A scenario is a starting position (the standard
   opening when pieces is empty, else a custom board installed piece by
   piece) and the commands a player may type on it. *)

MaxStep == 5
MaxRevert == 2

Square(f, r) == hf_convert_pos_to_int(<<f, r>>)

\* knight and pawn play in which a pawn takes half of a split bishop
OpeningCmds ==
    {<<"g", "1", ",", "f", "3">>, <<"f", "3", ",", "g", "1">>,
     <<"e", "7", ",", "e", "6">>, <<"f", "8", ",", "a", "3", "c", "5">>,
     <<"b", "2", ",", "a", "3">>, <<"g", "8", ",", "f", "6">>,
     <<"a", "2", ",", "a", "3">>, <<"a", "7", ",", "a", "6", ",", "1">>}

\* a split knight takes a pawn that has just advanced two cells
KnightCmds ==
    {<<"b", "1", ",", "a", "3", "c", "3">>, <<"b", "7", ",", "b", "5">>,
     <<"a", "3", ",", "b", "5">>, <<"a", "3", ",", "b", "5", ",", "0">>,
     <<"a", "3", "c", "3", ",", "b", "1">>, <<"g", "8", ",", "h", "6">>,
     <<"a", "2", ",", "a", "4">>, <<"b", "5", ",", "a", "4">>,
     <<"b", "1", "c", "3", ",", "a", "3">>, <<"a", "2", ",", "a", "3", ",">>}

\* kings and rooks on their origin cells
CastlingBoard ==
    <<<<Square("e", "1"), "K">>, <<Square("a", "1"), "R">>, <<Square("h", "1"), "R">>,
      <<Square("e", "8"), "k">>, <<Square("a", "8"), "r">>, <<Square("h", "8"), "r">>>>
CastlingCmds ==
    {<<"a", "1", ",", "a", "2">>, <<"a", "2", ",", "a", "1">>,
     <<"e", "1", "a", "1", ",", "c", "1", "d", "1">>,
     <<"e", "1", "h", "1", ",", "g", "1", "f", "1">>,
     <<"h", "8", ",", "h", "7">>, <<"h", "7", ",", "h", "8">>,
     <<"e", "8", "h", "8", ",", "g", "8", "f", "8">>,
     <<"e", "8", ",", "e", "7">>, <<"h", "1", ",", "h", "8">>}

\* two rooks hunt a king that splits; a black rook can take the white king
KingsBoard ==
    <<<<Square("a", "1"), "K">>, <<Square("d", "1"), "R">>, <<Square("f", "1"), "R">>,
      <<Square("e", "8"), "k">>, <<Square("a", "8"), "r">>, <<Square("h", "7"), "p">>>>
KingsCmds ==
    {<<"e", "8", ",", "d", "8", "f", "8">>, <<"d", "1", ",", "d", "8">>,
     <<"f", "1", ",", "f", "8">>, <<"h", "7", ",", "h", "6">>,
     <<"a", "8", ",", "a", "1">>, <<"d", "1", ",", "d", "2">>,
     <<"d", "8", ",", "e", "8">>, <<"d", "2", ",", "d", "8">>,
     <<"a", "1", "b", "1", ",", "a", "2">>}

Scenarios ==
    <<[pieces |-> <<>>, cmds |-> OpeningCmds],
      [pieces |-> <<>>, cmds |-> KnightCmds],
      [pieces |-> CastlingBoard, cmds |-> CastlingCmds],
      [pieces |-> KingsBoard, cmds |-> KingsCmds]>>

\* the game a scenario starts from
InitialGame(b) ==
    IF Scenarios[b].pieces = <<>> THEN StandardGame ELSE CustomGame(Scenarios[b].pieces)

\* the draws a replay of n commands may see, one per command
Draws(n) == [1..n -> {0, 1}]

----------------------------------------------------------------------------
(* State: the game object, the scenario it was started in, and the last call
   made on it with its argument and the exception it raised (OK for none).
   vacated records the origin cells that a move of the game as it stands has
   left unoccupied: a revert replays the kept moves on a fresh board, so it
   leaves the cells those moves vacate.  rng is the generator of the game:
   the seed it was created with (None for QChessGame()) and the number of
   draws a seeded generator has given; the outcomes of a generator without a
   seed are arbitrary. *)

VARIABLES game, board, op, cmd, step, result, vacated, rng

vars == <<game, board, op, cmd, step, result, vacated, rng>>

\* the generator of a game created without a seed
Unseeded == [seed |-> NoneM, taken |-> 0]

\* the origin cells of the kings and of the corner rooks
OriginCells ==
    {Square("e", "1"), Square("e", "8"), Square("a", "1"), Square("h", "1"),
     Square("a", "8"), Square("h", "8")}

\* the origin cells that the move from g to r has left unoccupied
Vacates(g, r) == {c \in OriginCells : TagAt(g, c) # None /\ TagAt(r, c) = None}

Init ==
    /\ board \in 1..Len(Scenarios)
    /\ game = InitialGame(board)
    /\ op = "init"
    /\ cmd = <<>>
    /\ step = 0
    /\ result = OK
    /\ vacated = {}
    /\ rng = Unseeded

RECURSIVE VacatedFrom(_, _, _, _)
\* the origin cells that become unoccupied at the end of a move while history
\* is replayed on g from its n-th entry on
VacatedFrom(g, history, rnds, n) ==
    IF n > Len(history) THEN {}
    ELSE LET Rest(r) ==
                 IF r.err # OK THEN {}
                 ELSE Vacates(g, r) \cup VacatedFrom(r, history, rnds, n + 1)
         IN  Rest(run_short_cmd(g, history[n], rnds[n]))

\* game.run_short_cmd(c); a caller that catches the exception goes on with the object
RunShortCmd ==
    /\ game.current_step < MaxStep
    /\ \E c \in Scenarios[board].cmds, rnd \in {0, 1} :
          LET Done(r) ==
                  /\ game' = [r EXCEPT !.err = OK]
                  /\ op' = "run"
                  /\ cmd' = c
                  /\ step' = 0
                  /\ result' = r.err
                  /\ vacated' = IF r.err = OK THEN vacated \cup Vacates(game, r) ELSE vacated
          IN  Done(run_short_cmd(game, c, rnd))
    /\ UNCHANGED <<board, rng>>

\* game.revert_cmd(n).  Every entry of history carries the outcome of its
\* measurement, so the replay reads no draw (C3 checks it on every sequence of
\* draws); the action offers the two constant sequences.  v is what the replay
\* leaves unoccupied.
RevertCmd ==
    /\ \E n \in 1..MaxRevert : \E d \in {0, 1} :
          LET rnds == [i \in 1..Len(game.history) |-> d]
              Done(r, v) ==
                  /\ game' = [r EXCEPT !.err = OK]
                  /\ op' = "revert"
                  /\ cmd' = <<>>
                  /\ step' = n
                  /\ result' = r.err
                  /\ vacated' = IF r.history = game.history THEN vacated ELSE v
          IN  Done(revert_cmd(game, n, rnds),
                   VacatedFrom(StandardGame,
                               SubSeq(game.history, 1,
                                      Len(game.history) - Min(n, Len(game.history))),
                               rnds, 1))
    /\ UNCHANGED <<board, rng>>

Next == RunShortCmd \/ RevertCmd

Spec == Init /\ [][Next]_vars

----------------------------------------------------------------------------
(* Games of successful moves from the standard opening, for the enumerator *)

EnumDepth == 6

EnumInit ==
    /\ board \in {b \in 1..Len(Scenarios) : Scenarios[b].pieces = <<>>}
    /\ game = StandardGame
    /\ op = "init"
    /\ cmd = <<>>
    /\ step = 0
    /\ result = OK
    /\ vacated = {}
    /\ rng = Unseeded

\* game.run_short_cmd(c) of a command that succeeds
PlayMove ==
    /\ game.current_step < EnumDepth
    /\ \E c \in Scenarios[board].cmds, rnd \in {0, 1} :
          LET Done(r) ==
                  /\ r.err = OK
                  /\ game' = r
                  /\ op' = "run"
                  /\ cmd' = c
                  /\ step' = 0
                  /\ result' = OK
                  /\ vacated' = vacated \cup Vacates(game, r)
          IN  Done(run_short_cmd(game, c, rnd))
    /\ UNCHANGED <<board, rng>>

EnumNext == PlayMove

EnumSpec == EnumInit /\ [][EnumNext]_vars

----------------------------------------------------------------------------
(* The simulator driven directly: boards of from_board and the slide
   protocols on a few cells around d3.  step counts the calls made. *)

SimMaxOps == 2

\* QChessSparseSimulator.from_board(pos_list): the tags are handed over in the
\* order of pos_list and assigned in the order of the cells
from_board(pos_list) ==
    reset({pos_list[n][1] : n \in 1..Len(pos_list)},
          [n \in 1..Len(pos_list) |-> pos_list[n][2]])

SimCells ==
    {Square("b", "3"), Square("c", "3"), Square("d", "3"), Square("d", "4"), Square("d", "5")}

SimBoards ==
    <<<<<<Square("d", "3"), "R">>>>,
      <<<<Square("c", "3"), "r">>, <<Square("d", "3"), "R">>>>,
      <<<<Square("c", "3"), "R">>, <<Square("d", "3"), "R">>>>>>

\* the paths tried between operands: empty, or one cell
SimPaths(ends) == {<<>>} \cup {<<c>> : c \in SimCells \ ends}

SimInit ==
    /\ board \in 1..Len(SimBoards)
    /\ game = from_board(SimBoards[board])
    /\ op = "init"
    /\ cmd = <<>>
    /\ step = 0
    /\ result = OK
    /\ vacated = {}
    /\ rng = Unseeded

\* the call returned r
SimCall(name, r) ==
    /\ game' = [r EXCEPT !.err = OK]
    /\ op' = name
    /\ step' = step + 1
    /\ result' = r.err
    /\ UNCHANGED <<board, cmd, vacated, rng>>

SimSplitSlide ==
    /\ step < SimMaxOps
    /\ \E src \in SimCells, dst1 \in SimCells, dst2 \in SimCells :
       \E path1 \in SimPaths({src, dst1, dst2}), path2 \in SimPaths({src, dst1, dst2}) :
          SimCall("split_slide", split_slide(game, src, dst1, dst2, path1, path2))

SimMergeSlide ==
    /\ step < SimMaxOps
    /\ \E src1 \in SimCells, src2 \in SimCells, dst \in SimCells :
       \E path1 \in SimPaths({src1, src2, dst}), path2 \in SimPaths({src1, src2, dst}) :
          SimCall("merge_slide", merge_slide(game, src1, src2, dst, path1, path2))

SimNormalSlide ==
    /\ step < SimMaxOps
    /\ \E src \in SimCells, dst \in SimCells :
       \E path \in SimPaths({src, dst}) :
          SimCall("normal_slide", normal_slide(game, src, dst, path))

SimNext == SimSplitSlide \/ SimMergeSlide \/ SimNormalSlide

SimSpec == SimInit /\ [][SimNext]_vars

----------------------------------------------------------------------------
(* Properties of the game object *)

\* the fields a caller can observe a move to have changed
SameState(g, h) ==
    /\ g.coeff = h.coeff
    /\ g.den = h.den
    /\ g.pos2tag = h.pos2tag
    /\ g.current_step = h.current_step
    /\ g.history = h.history
    /\ g.tag_wcastling = h.tag_wcastling
    /\ g.tag_bcastling = h.tag_bcastling
    /\ g.pawn_last_twostep = h.pawn_last_twostep
    /\ g.prefix_measure = h.prefix_measure

\* C1: a run_short_cmd that raises leaves the amplitude map, the tag array, the
\* step counter, the history, both castling flags, the pawn double-step
\* timestamps and prefix_measure as they were before the call.
C1_RaiseChangesNothing ==
    [][(op' = "run" /\ result' # OK) => SameState(game', game)]_vars

\* the same amplitudes and the same tags
SameBoard(g, h) == g.coeff = h.coeff /\ g.den = h.den /\ g.pos2tag = h.pos2tag

\* the scenarios played from the standard opening
Standard == Scenarios[board].pieces = <<>>

RECURSIVE ReplaysTo(_, _, _)
\* run_short_cmd on the entries of history from the n-th on, started on g,
\* succeeds and ends on the amplitude map, the tag array and the history of
\* game, whatever each random draw is
ReplaysTo(g, history, n) ==
    IF n > Len(history) THEN SameBoard(g, game) /\ g.history = game.history
    ELSE \A rnd \in {0, 1} :
             LET Goes(r) == r.err = OK /\ ReplaysTo(r, history, n + 1)
             IN  Goes(run_short_cmd(g, history[n], rnd))

SourceCell(c) ==
    IF parse_cmd(c).err # OK THEN NoPos ELSE hf_convert_pos_to_int(parse_cmd(c).src)

\* the cell is empty or holds a piece of the side not to move
NotOwn(g, cell) ==
    TagAt(g, cell) = None \/ IsUpper(TagAt(g, cell)) # (g.current_step % 2 = 0)

\* C7: a command whose first source cell is empty or holds a piece of the side
\* not to move (white moves on even current_step, black on odd) is rejected
\* with QChessInvalidCommand, and no successful move has such a source.
C7_TurnOrder ==
    [][(op' = "run" /\ SourceCell(cmd') # NoPos /\ NotOwn(game, SourceCell(cmd')))
          => result' = QChessInvalidCommand]_vars

\* black's piece was asked to move on white's turn and the move was rejected
C7_Witness ==
    /\ op = "run" /\ result = QChessInvalidCommand
    /\ SourceCell(cmd) # NoPos
    /\ TagAt(game, SourceCell(cmd)) # None
    /\ NotOwn(game, SourceCell(cmd))
    /\ game.current_step >= 2

\* C8: a successful run_short_cmd adds 1 to current_step and one entry to the
\* history, revert_cmd(n) leaves the first len - min(n, len) entries of the
\* history, and so len(history) = current_step in every state.
C8_StepAndHistory ==
    /\ [](Len(game.history) = game.current_step)
    /\ [][(op' = "run" /\ result' = OK)
             => /\ game'.current_step = game.current_step + 1
                /\ Len(game'.history) = Len(game.history) + 1
                /\ SubSeq(game'.history, 1, Len(game.history)) = game.history]_vars
    /\ [][op' = "revert"
             => game'.history = SubSeq(game.history, 1,
                                       Len(game.history) - Min(step', Len(game.history)))]_vars

\* a king of the given tag has non-zero probability on one of the 64 cells
KingOnBoard(g, tag) ==
    \E c \in 0..63 : g.pos2tag[c + 1] = tag /\ \E k \in Keys(g) : k[c + 1] = 1

\* C9: is_finish_or_not answers by the presence of the kings on the 64 board
\* cells: 'continue' with both, 'white' with the white king only, 'black'
\* with the black king only, 'draw' with none; ancilla cells do not count.
C9_FinishByKings ==
    is_finish_or_not(game) =
        IF KingOnBoard(game, "K") /\ KingOnBoard(game, "k") THEN "continue"
        ELSE IF KingOnBoard(game, "K") THEN "white"
        ELSE IF KingOnBoard(game, "k") THEN "black"
        ELSE "draw"

\* both halves of a split black king were captured: white has won although
\* the ancilla cells still hold the king
C9_Witness ==
    /\ is_finish_or_not(game) = "white"
    /\ Len(game.pos2tag) > 64
    /\ \E n \in 65..Len(game.pos2tag) : game.pos2tag[n] = "k"

\* C10: once the origin cell of a king or of a corner rook was unoccupied at
\* the end of a move, no castling with that king or that rook is classified
\* legal.
C10_CastlingRightsLost ==
    \A n \in 1..Len(CastlingTemplates) :
        LET t == CastlingTemplates[n]
        IN  (t[1] \in vacated \/ t[2] \in vacated)
                => is_valid_castling(game, t[1], t[2], t[3], t[4]) = ""

\* C2: in a state reached from the standard opening by successful moves,
\* get_all_available_move() returns, and run_short_cmd of every command it
\* returns completes without raising, whatever outcome is sampled.
C2_EnumeratedMovesRun ==
    /\ ~get_all_available_move_raises(game)
    /\ \A c \in SeqSet(get_all_available_move(game)) : \A rnd \in {0, 1} :
          run_short_cmd(game, c, rnd).err = OK

\* h holds g's amplitude map up to one global phase: the same keys, and
\* amplitudes in one common ratio (both maps have norm 1)
SameUpToPhase(g, h) ==
    /\ Keys(g) = Keys(h)
    /\ \A k1 \in Keys(g), k2 \in Keys(g) :
          CMul(g.coeff[k1], h.coeff[k2]) = CMul(g.coeff[k2], h.coeff[k1])

\* the merge m has returned and has restored the amplitudes and the tags of g
Undone(g, m) == m.err = OK /\ SameUpToPhase(g, m) /\ m.pos2tag = g.pos2tag

\* C6: for a piece on src, split_slide(src, d1, d2, path1, path2) followed
\* at once by merge_slide(d1, d2, src, path1, path2), or by
\* merge_slide(d2, d1, src, path2, path1), gives back the amplitude map of
\* before the split up to one global phase and the same tags, also when
\* the path cells are in superposition.
C6_MergeUndoesSplit ==
    \A src \in SimCells, dst1 \in SimCells, dst2 \in SimCells :
    \A path1 \in SimPaths({src, dst1, dst2}), path2 \in SimPaths({src, dst1, dst2}) :
        LET s == split_slide(game, src, dst1, dst2, path1, path2)
        IN  s.err = OK
                => /\ Undone(game, merge_slide(s, dst1, dst2, src, path1, path2))
                   /\ Undone(game, merge_slide(s, dst2, dst1, src, path2, path1))

\* a forced outcome that the state gives probability 0: 1 on an event that
\* cannot happen, 0 on an event that is certain (p as get_probability_i gives it)
Impossible(g, p, fix) ==
    (fix = 1 /\ IsZeroProb(g, p)) \/ (fix = 0 /\ IsOneProb(g, p))

\* the call has raised and has left the amplitude map and the tags of g
Rejected(g, r) == r.err # OK /\ SameBoard(r, g)

\* the paths of tagged cells between operands, as the game hands them over
TaggedPaths(g, ends) == {p \in SimPaths(ends) : \A n \in 1..Len(p) : TagAt(g, p[n]) # None}

\* C11: a measuring operation (measure, blocked move, capture by jump, capture
\* by slide over a non-empty path, the pawn's capture of en passant) that is
\* given a forced outcome of probability 0 in the current state raises and
\* leaves the amplitude map and the tag array as they were.
C11_ImpossibleForcedRejected ==
    \A fix \in {0, 1}, rnd \in {0, 1} :
        /\ \A index \in SimCells :
              Impossible(game, get_probability_i(game, index), fix)
                  => Rejected(game, measure(game, index, fix, rnd))
        /\ \A src \in SimCells : \A dst \in SimCells \ {src} :
           \A path \in TaggedPaths(game, {src, dst}) :
              /\ Impossible(game, get_probability_i(game, dst), fix)
                    => Rejected(game, blocked_slide(game, src, dst, path, fix, rnd))
              /\ \A is_pawn \in BOOLEAN :
                    Impossible(game, get_probability_i(game, src), fix)
                        => Rejected(game, capture_jump(game, src, dst, fix, rnd, is_pawn))
              /\ (path # <<>> /\ Impossible(game,
                                            get_capture_slide_measure_prob(game, src, dst, path),
                                            fix))
                    => Rejected(game, capture_slide(game, src, dst, path, fix, rnd, FALSE))

----------------------------------------------------------------------------
(* Command strings typed at the standard opening, for the command grammar *)

CmdMaxOps == 1

\* the strings typed: a first field, a second field and an ending, or a first
\* field and an ending
TypedCmds ==
    LET firsts == {<<"e", "2">>, <<"g", "1">>, <<"e", "7">>, <<"e", "1", "h", "1">>,
                   <<"e">>, <<"e", "2", "e">>, <<"i", "2">>, <<>>}
        seconds == {<<"e", "4">>, <<"e", "3">>, <<"f", "3">>, <<"e", "8", "q">>,
                    <<"f", "3", "h", "3">>, <<"g", "1", "f", "1">>, <<"e", "9">>,
                    <<"e", "4", "x">>, <<>>}
        endings == {<<>>, <<",", "0">>, <<",", "1">>, <<",">>, <<",", "0", "1">>,
                    <<",", "2">>, <<",", "1", "0">>, <<",", "0", ",", "1">>}
    IN  {a \o <<",">> \o b \o e : a \in firsts, b \in seconds, e \in endings}
            \cup {a \o e : a \in firsts, e \in endings}

CmdInit ==
    /\ board = 1
    /\ game = StandardGame
    /\ op = "init"
    /\ cmd = <<>>
    /\ step = 0
    /\ result = OK
    /\ vacated = {}
    /\ rng = Unseeded

\* game.run_short_cmd(c) of a typed string
TypeCmd ==
    /\ step < CmdMaxOps
    /\ \E c \in TypedCmds, rnd \in {0, 1} :
          LET Done(r) ==
                  /\ game' = [r EXCEPT !.err = OK]
                  /\ op' = "run"
                  /\ cmd' = c
                  /\ step' = step + 1
                  /\ result' = r.err
          IN  Done(run_short_cmd(game, c, rnd))
    /\ UNCHANGED <<board, vacated, rng>>

CmdSpec == CmdInit /\ [][TypeCmd]_vars

\* a 2-character algebraic square
IsSquare(x) == Len(x) = 2 /\ x[1] \in SeqSet(FileChars) /\ x[2] \in SeqSet(RankChars)

\* SRC[SRC2],DST[DST2 | PROMO][,F]
WellShaped(c) ==
    LET f == SplitComma(c, <<>>)
    IN  /\ Len(f) \in {2, 3}
        /\ \/ IsSquare(f[1])
           \/ Len(f[1]) = 4 /\ IsSquare(SubSeq(f[1], 1, 2)) /\ IsSquare(SubSeq(f[1], 3, 4))
        /\ \/ IsSquare(f[2])
           \/ Len(f[2]) = 3 /\ IsSquare(SubSeq(f[2], 1, 2)) /\ f[2][3] \in {"q", "r", "b", "n"}
           \/ Len(f[2]) = 4 /\ IsSquare(SubSeq(f[2], 1, 2)) /\ IsSquare(SubSeq(f[2], 3, 4))
        /\ Len(f) = 3 => f[3] \in {<<"0">>, <<"1">>}

\* C12: run_short_cmd on a string that is not of the shape
\* SRC[SRC2],DST[DST2 | PROMO][,F], F being exactly '0' or exactly '1', raises
\* QChessInvalidCommand and changes nothing.
C12_MalformedRejected ==
    [][(op' = "run" /\ ~WellShaped(cmd'))
          => (result' = QChessInvalidCommand /\ SameState(game', game))]_vars


\* C13: a command of the scenarios (all of them well-formed) that run_short_cmd
\* does not execute is refused with QChessInvalidCommand, never with another
\* kind of exception.
C13_IllegalRaisesInvalidCommand ==
    [][(op' = "run" /\ WellShaped(cmd') /\ result' # OK)
          => result' = QChessInvalidCommand]_vars


\* the cell named x holds a piece of the side to move
OwnedCell(g, x) ==
    LET tag == TagAt(g, hf_convert_pos_to_int(x))
    IN  tag # None /\ IsUpper(tag) = is_white(g)

\* the source cells named by the command c
SourceCells(c) ==
    LET Named(args) == {args.src} \cup (IF args.src1 = <<>> THEN {} ELSE {args.src1})
    IN  Named(parse_cmd(c))

\* C14: every command that get_all_available_move() returns names as its
\* source cells (one, or two for a merge and for castling) only cells that
\* hold a piece of the side to move, so none whose tag is None.
C14_EnumerationOwnership ==
    ~get_all_available_move_raises(game) =>
        \A c \in SeqSet(get_all_available_move(game)) :
            \A x \in SourceCells(c) : OwnedCell(game, x)

\* black is to move and the enumeration returns a command with two source cells
C14_Witness ==
    /\ ~get_all_available_move_raises(game)
    /\ ~is_white(game)
    /\ \E c \in SeqSet(get_all_available_move(game)) : Cardinality(SourceCells(c)) = 2

----------------------------------------------------------------------------
(* Games of successful moves in which pawns promote, pawns capture en
   passant, sliders cross a cell that holds half a piece, a king castles after a
   capture, and a rook captures across half a piece whose other half it has
   taken *)

PieceDepth == 5

\* 1: a white pawn on b7 and a black pawn on g2, one step from promotion; the
\*    black knight can split onto b8.
\* 2: the standard opening, with the pawn moves around an en-passant capture
\*    and a knight that can split meanwhile.
\* 3: a white knight that splits onto a3 and c3, in the way of the rook on a1,
\*    of the rook on a8 and of the pawn on c2.
\* 4: kings and rooks on their origin cells; a rook captures a rook, then a
\*    king castles.
\* 5: a black knight that splits onto f6 and h6; the rook takes the half on
\*    h6, then takes the pawn on c6 across f6.
PieceScenarios ==
    <<[pieces |-> <<<<Square("b", "7"), "P">>, <<Square("e", "1"), "K">>,
                    <<Square("h", "1"), "R">>, <<Square("e", "8"), "k">>,
                    <<Square("a", "8"), "r">>, <<Square("c", "6"), "n">>,
                    <<Square("g", "2"), "p">>>>,
       cmds |-> {<<"b", "7", ",", "b", "8", "q">>, <<"b", "7", ",", "b", "8">>,
                 <<"b", "7", ",", "a", "8", "r">>, <<"b", "7", ",", "a", "8">>,
                 <<"b", "7", ",", "c", "8", "n">>, <<"e", "1", ",", "d", "1">>,
                 <<"c", "6", ",", "b", "8", "d", "8">>, <<"g", "2", ",", "g", "1", "b">>,
                 <<"g", "2", ",", "h", "1", "n">>, <<"e", "8", ",", "e", "7">>}],
      [pieces |-> <<>>,
       cmds |-> {<<"e", "2", ",", "e", "4">>, <<"e", "4", ",", "e", "5">>,
                 <<"d", "7", ",", "d", "5">>, <<"d", "7", ",", "d", "6">>,
                 <<"d", "6", ",", "d", "5">>, <<"e", "5", ",", "d", "6">>,
                 <<"a", "7", ",", "a", "6">>, <<"f", "7", ",", "f", "5">>,
                 <<"e", "5", ",", "f", "6">>, <<"h", "2", ",", "h", "3">>,
                 <<"b", "8", ",", "a", "6", "c", "6">>}],
      [pieces |-> <<<<Square("a", "1"), "R">>, <<Square("b", "1"), "N">>,
                    <<Square("c", "2"), "P">>, <<Square("e", "1"), "K">>,
                    <<Square("h", "8"), "k">>, <<Square("a", "8"), "r">>,
                    <<Square("h", "7"), "p">>>>,
       cmds |-> {<<"b", "1", ",", "a", "3", "c", "3">>, <<"h", "7", ",", "h", "6">>,
                 <<"a", "1", ",", "a", "5">>, <<"a", "1", ",", "a", "8">>,
                 <<"a", "1", ",", "a", "4", "a", "5">>, <<"c", "2", ",", "c", "4">>,
                 <<"a", "8", ",", "a", "2">>, <<"a", "8", ",", "a", "3">>,
                 <<"a", "1", ",", "a", "3">>, <<"h", "8", ",", "g", "8">>}],
      [pieces |-> CastlingBoard,
       cmds |-> {<<"h", "1", ",", "h", "8">>, <<"a", "1", ",", "a", "8">>,
                 <<"e", "8", "a", "8", ",", "c", "8", "d", "8">>,
                 <<"e", "8", "h", "8", ",", "g", "8", "f", "8">>,
                 <<"e", "1", "a", "1", ",", "c", "1", "d", "1">>,
                 <<"e", "8", ",", "e", "7">>, <<"h", "8", ",", "h", "1">>}],
      [pieces |-> <<<<Square("e", "1"), "K">>, <<Square("h", "1"), "R">>,
                    <<Square("e", "8"), "k">>, <<Square("g", "8"), "n">>,
                    <<Square("c", "6"), "p">>>>,
       cmds |-> {<<"e", "1", ",", "d", "1">>, <<"g", "8", ",", "f", "6", "h", "6">>,
                 <<"h", "1", ",", "h", "6">>, <<"e", "8", ",", "d", "8">>,
                 <<"h", "6", ",", "c", "6">>, <<"h", "6", ",", "f", "6">>,
                 <<"f", "6", ",", "g", "8">>}]>>

PieceInit ==
    /\ board \in 1..Len(PieceScenarios)
    /\ game = IF PieceScenarios[board].pieces = <<>> THEN StandardGame
              ELSE CustomGame(PieceScenarios[board].pieces)
    /\ op = "init"
    /\ cmd = <<>>
    /\ step = 0
    /\ result = OK
    /\ vacated = {}
    /\ rng = Unseeded

\* game.run_short_cmd(c) of a command that succeeds
PieceMove ==
    /\ game.current_step < PieceDepth
    /\ \E c \in PieceScenarios[board].cmds, rnd \in {0, 1} :
          LET Done(r) ==
                  /\ r.err = OK
                  /\ game' = r
                  /\ op' = "run"
                  /\ cmd' = c
                  /\ step' = 0
                  /\ result' = OK
          IN  Done(run_short_cmd(game, c, rnd))
    /\ UNCHANGED <<board, vacated, rng>>

PieceSpec == PieceInit /\ [][PieceMove]_vars


\* the cells that hold a pawn of the side to move: the sources move_pawn and
\* the enumerator hand to is_valid_move_pawn
OwnPawns(g) == {x \in 0..63 : TagAt(g, x) = (IF is_white(g) THEN "P" ELSE "p")}

\* the farthest rank of the side to move
LastRank(g) == IF is_white(g) THEN 7 ELSE 0

\* src -> dst is a pawn move of legal geometry: one step ahead onto a cell that
\* is not certainly occupied, or one step diagonally onto a piece of the other side
PawnStepGeometry(g, src, dst) ==
    LET fwd == IF is_white(g) THEN 1 ELSE 0 - 1
    IN  /\ Rank(dst) = Rank(src) + fwd
        /\ \/ File(dst) = File(src) /\ (TagAt(g, dst) = None \/ ~Certain(g, dst))
           \/ /\ File(dst) \in {File(src) - 1, File(src) + 1}
              /\ TagAt(g, dst) # None
              /\ IsUpper(TagAt(g, dst)) # is_white(g)

\* C15: for a pawn of the side to move, is_valid_move_pawn returns '' when dst
\* is on the farthest rank and promotion is None, returns '' when a promotion
\* letter is given and dst is not on the farthest rank, and returns a move kind
\* when dst is on the farthest rank, the letter is one of q, r, b, n and the
\* geometry of the move is legal.
C15_PromotionOnLastRank ==
    \A src \in OwnPawns(game), dst \in 0..63 :
        /\ Rank(dst) = LastRank(game) => is_valid_move_pawn(game, src, dst, None) = ""
        /\ \A y \in SeqSet(PromotionLetters) :
              /\ Rank(dst) # LastRank(game) => is_valid_move_pawn(game, src, dst, y) = ""
              /\ (Rank(dst) = LastRank(game) /\ PawnStepGeometry(game, src, dst))
                    => is_valid_move_pawn(game, src, dst, y)
                           \in {"one-step-move", "one-step-blocked-move", "capture"}

\* a pawn of the side to move stands one step from the farthest rank, with a
\* piece to capture there and the cell ahead holding half a piece
C15_Witness ==
    \E src \in OwnPawns(game) : \E dst \in 0..63, cap \in 0..63 :
        /\ Rank(dst) = LastRank(game) /\ Rank(cap) = LastRank(game)
        /\ File(dst) = File(src) /\ File(cap) # File(src)
        /\ TagAt(game, dst) # None
        /\ PawnStepGeometry(game, src, dst)
        /\ PawnStepGeometry(game, src, cap)


\* the last command of the history moved a piece two ranks along its file onto
\* the cell side, towards the side now to move
TwoStepJustMade(g, side) ==
    LET fwd == IF is_white(g) THEN 1 ELSE 0 - 1
        Made(args) ==
            /\ args.err = OK
            /\ args.src1 = <<>> /\ args.dst1 = <<>>
            /\ hf_convert_pos_to_int(args.dst) = side
            /\ hf_convert_pos_to_int(args.src) = Pos(File(side), Rank(side) + 2 * fwd)
    IN  /\ g.history # <<>>
        /\ Len(g.history) = g.current_step
        /\ Made(parse_cmd(g.history[Len(g.history)]))

\* C16: is_valid_move_pawn returns 'en-passant' for src -> dst only if the
\* pawn on (dst.file, src.rank) came there by a two-step move made on the
\* preceding ply; on a later ply, or when the pawn came by one-step moves, en
\* passant is illegal.
C16_EnPassantOnePly ==
    \A src \in OwnPawns(game), dst \in 0..63 :
        \A y \in {None} \cup SeqSet(PromotionLetters) :
            is_valid_move_pawn(game, src, dst, y) = "en-passant"
                => TwoStepJustMade(game, Pos(File(dst), Rank(src)))

\* en passant is legal for some pawn of the side to move
C16_Witness ==
    \E src \in OwnPawns(game), dst \in 0..63 :
        is_valid_move_pawn(game, src, dst, None) = "en-passant"


\* the cells that hold a rook, a bishop or a queen of the side to move
OwnSliders(g) ==
    {x \in 0..63 : /\ TagAt(g, x) # None
                   /\ IsSlider(Upper(TagAt(g, x)))
                   /\ IsUpper(TagAt(g, x)) = is_white(g)}

\* the cells strictly between the operands of a move
Crossed(src, src1, dst, dst1) ==
    SeqSet(RawPath(src, dst))
        \cup (IF src1 # NoPos THEN SeqSet(RawPath(src1, dst)) ELSE {})
        \cup (IF dst1 # NoPos THEN SeqSet(RawPath(src, dst1)) ELSE {})

\* the cell x is occupied with a probability that is not negligible
NonNegligible(g, x) == TagAt(g, x) # None /\ ~IsZeroProb(g, ProbAt(g, x))

\* the moves of the slider on src that lie on its lines: one destination, two
\* destinations (a split) or a second source of its tag (a merge)
SliderMoves(g, src) ==
    LET tag == Upper(TagAt(g, src))
        reach == {x \in 0..63 : x # src /\ hf0(tag, x, src)}
    IN  {<<src, NoPos, dst, NoPos>> : dst \in reach}
            \cup {<<src, NoPos, dst, dst1>> : dst \in reach, dst1 \in reach}
            \cup {m \in {<<src, src1, dst, NoPos>> :
                           src1 \in {x \in 0..63 : x # src /\ TagAt(g, x) = TagAt(g, src)},
                           dst \in reach} : m[2] # m[3] /\ hf0(tag, m[2], m[3])}

\* the kind the classifier of the slider on m[1] gives the move m
SliderKind(g, m) == is_valid_move_piece(g, Upper(TagAt(g, m[1])), m[1], m[2], m[3], m[4])

\* the slides that are not blocked variants
SlideKinds == {"normal-slide", "capture", "split", "merge"}

\* the cells of the file of src, where a two-step of the pawn on src ends
PawnFile(src) == {x \in 0..63 : File(x) = File(src)}

\* C17 as stated: a slide that is not a blocked variant (normal slide,
\* capture, split, merge, pawn two-step) is classified illegal whenever a cell
\* strictly between its source and its destination is occupied with a
\* probability that is not negligible.
C17_PathClearOfAnyPiece ==
    /\ \A src \in OwnSliders(game) : \A m \in SliderMoves(game, src) :
          (\E x \in Crossed(m[1], m[2], m[3], m[4]) : NonNegligible(game, x))
              => SliderKind(game, m) \notin SlideKinds
    /\ \A src \in OwnPawns(game) : \A dst \in PawnFile(src) :
          (\E x \in SeqSet(RawPath(src, dst)) : NonNegligible(game, x))
              => is_valid_move_pawn(game, src, dst, None) # "two-step-move"

\* C17: a slide that is not a blocked variant (normal slide, capture, split,
\* merge, pawn two-step) is classified illegal whenever a cell strictly between
\* its source and its destination is occupied with probability 1; a cell that
\* holds a piece with a smaller probability does not stop it.
C17_PathClearOfCertainPiece ==
    /\ \A src \in OwnSliders(game) : \A m \in SliderMoves(game, src) :
          (\E x \in Crossed(m[1], m[2], m[3], m[4]) : Certain(game, x))
              => SliderKind(game, m) \notin SlideKinds
    /\ \A src \in OwnPawns(game) : \A dst \in PawnFile(src) :
          (\E x \in SeqSet(RawPath(src, dst)) : Certain(game, x))
              => is_valid_move_pawn(game, src, dst, None) # "two-step-move"

\* a slider of the side to move has a piece of probability 1 in the way of one
\* destination on its lines and a piece of a smaller probability in the way of another
C17_Witness ==
    \E src \in OwnSliders(game) : \E m \in SliderMoves(game, src), k \in SliderMoves(game, src) :
        /\ m[2] = NoPos /\ m[4] = NoPos /\ k[2] = NoPos /\ k[4] = NoPos
        /\ \E x \in Crossed(m[1], m[2], m[3], m[4]) : Certain(game, x)
        /\ SliderKind(game, m) = ""
        /\ \E x \in Crossed(k[1], k[2], k[3], k[4]) : NonNegligible(game, x)
        /\ SliderKind(game, k) \in SlideKinds

----------------------------------------------------------------------------
(* Games created with a seed: QChessGame(seed=s), played with commands that
   carry no forced outcome *)

SeedDepth == 4
MaxSeed == 3

\* random.Random(seed): the outcomes its successive draws give to a
\* measurement of an uncertain cell, a function of the seed
RandomStream(seed) == [k \in 1..SeedDepth |-> (seed \div (2 ^ (k - 1))) % 2]

\* a generator that does not take the seed
get_rng_unseeded(seed) == [1..SeedDepth -> {0, 1}]

\* get_rng(seed): the streams the generator may give, the one of the seed or,
\* without a seed, any
get_rng(seed) == IF seed = NoneM THEN [1..SeedDepth -> {0, 1}] ELSE {RandomStream(seed)}

\* the command takes a draw from the generator: its outcome depends on it
DrawUsed(g, c) == run_short_cmd(g, c, 0) # run_short_cmd(g, c, 1)

\* knights that split and pawns that step onto the cells they may stand on
SeedCmds ==
    {<<"b", "1", ",", "a", "3", "c", "3">>, <<"g", "8", ",", "f", "6", "h", "6">>,
     <<"c", "2", ",", "c", "3">>, <<"f", "7", ",", "f", "6">>,
     <<"a", "2", ",", "a", "3">>, <<"h", "7", ",", "h", "6">>,
     <<"d", "7", ",", "d", "5">>, <<"c", "3", ",", "d", "5">>,
     <<"e", "2", ",", "e", "4">>, <<"f", "6", ",", "e", "4">>}

SeedInit ==
    /\ board = 1
    /\ game = StandardGame
    /\ op = "init"
    /\ cmd = <<>>
    /\ step = 0
    /\ result = OK
    /\ vacated = {}
    /\ rng \in {[seed |-> s, taken |-> 0] : s \in 0..MaxSeed}

\* game.run_short_cmd(c) of a command that succeeds; the draw is the next one
\* of the generator
SeededMove ==
    /\ game.current_step < SeedDepth
    /\ \E c \in SeedCmds : \E s \in get_rng(rng.seed) :
          LET Done(r, used) ==
                  /\ r.err = OK
                  /\ game' = r
                  /\ op' = "run"
                  /\ cmd' = c
                  /\ step' = 0
                  /\ result' = OK
                  /\ rng' = [rng EXCEPT !.taken = IF used THEN @ + 1 ELSE @]
          IN  Done(run_short_cmd(game, c, s[rng.taken + 1]), DrawUsed(game, c))
    /\ UNCHANGED <<board, vacated>>

SeedSpec == SeedInit /\ [][SeededMove]_vars

\* the command that history records as h: h without the outcome appended to it
CommandOf(h) ==
    LET Joined(f) == f[1] \o <<",">> \o f[2]
    IN  Joined(SplitComma(h, <<>>))

RECURSIVE SeededRun(_, _, _, _, _)
\* the game that g becomes when it is given the commands of history from the
\* n-th on, its generator giving the stream s from the draw taken + 1 on
SeededRun(g, taken, history, n, s) ==
    IF n > Len(history) \/ g.err # OK THEN g
    ELSE LET Then(r, used) == SeededRun(r, IF used THEN taken + 1 ELSE taken, history, n + 1, s)
         IN  Then(run_short_cmd(g, CommandOf(history[n]), s[taken + 1]),
                  DrawUsed(g, CommandOf(history[n])))

CmdKind(g, c) ==
    LET Kind(args) ==
            LET src == hf_convert_pos_to_int(args.src)
                dst == hf_convert_pos_to_int(args.dst)
            IN  IF args.src1 # <<>> /\ args.dst1 # <<>>
                THEN is_valid_castling(g, src, OptPos(args.src1), dst, OptPos(args.dst1))
                ELSE IF TagAt(g, src) \in {"P", "p"}
                THEN is_valid_move_pawn(g, src, dst, args.promotion)
                ELSE is_valid_move_piece(g, Upper(TagAt(g, src)), src, OptPos(args.src1),
                                         dst, OptPos(args.dst1))
    IN  Kind(parse_cmd(c))

\* the kinds of move that measure nothing
QuietKinds ==
    {"castling", "normal-slide", "normal-jump", "split", "merge",
     "one-step-move", "two-step-move"}

\* the command carries no forced outcome
Unforced(c) == Len(SplitComma(c, <<>>)) = 2

\* C19: when run_short_cmd has executed a command that carries no forced
\* outcome, the entry it appends to history is the command followed by ',0' or
\* ',1', the outcome in sim.last_measure, when sim.last_measure is not None,
\* and is the bare command otherwise; and after a move that measures nothing
\* (castling included) sim.last_measure is None, so the entry is the bare
\* command.
C19_HistoryAnnotationExact ==
    [][(op' = "run" /\ result' = OK /\ Unforced(cmd'))
          => LET entry == game'.history[Len(game'.history)]
             IN  /\ entry = cmd' \o MeasureSuffix(game'.last_measure)
                 /\ CmdKind(game, cmd') \in QuietKinds
                       => (game'.last_measure = NoneM /\ entry = cmd')]_vars


\* the ancilla cells the simulator tracks
Ancillas(g) == 64..(Len(g.pos2tag) - 1)

\* C20: when run_short_cmd has executed a move that measures (a blocked move,
\* a capture by jump or by slide, an en passant), every ancilla cell still
\* tracked is occupied with a probability strictly between 0 and 1.
C20_CollapsedAncillasFreed ==
    [][(op' = "run" /\ result' = OK /\ CmdKind(game, cmd') \notin QuietKinds)
          => \A x \in Ancillas(game') :
                 /\ ~IsZeroProb(game', ProbNum(game', x))
                 /\ ~IsOneProb(game', ProbNum(game', x))]_vars

----------------------------------------------------------------------------
(* The protocols of the simulator called one after another on small boards:
   captures with the capturing piece or the captured piece in superposition,
   blocked slides, splits along paths that hold half a piece, and ancillas
   added and dropped by hand.  step counts the calls, cmd is the last call
   with its operands. *)

ProtoMaxOps == 4

\* 1: a rook that splits onto b4 and c3 and a rook of the other side that
\*    slides from d3 to a3 only where b3 and c3 are empty: the rook on c3
\*    stands next to the other rook exactly where that one has stayed on d3.
\* 2: a knight that splits onto d4 and a3, to be taken on d4 by the pawn on c3
\*    or by the rook on d1.
\* 3: a pawn that goes from c2 to c4 across c3, where half a knight stands,
\*    and then takes on d5.
\* 4: a rook on a3 whose slide to d3 is blocked by half a bishop on d3, with
\*    half a knight on b3 in its way.
\* 5: a rook on a3 that splits to c3 across b3 and to a5 across a4, each
\*    holding half a knight.
\* 6: a rook that splits twice.
ProtoScenarios ==
    <<[board |-> <<<<Square("b", "3"), "R">>, <<Square("d", "3"), "r">>>>,
       cells |-> {Square("a", "3"), Square("b", "3"), Square("c", "3"), Square("d", "3"),
                  Square("b", "4")},
       calls |-> {<<"split_slide", Square("b", "3"), Square("b", "4"), Square("c", "3"),
                    <<>>, <<>>>>,
                  <<"normal_slide", Square("d", "3"), Square("a", "3"),
                    <<Square("b", "3"), Square("c", "3")>>>>,
                  <<"capture_jump", Square("c", "3"), Square("d", "3"), FALSE>>,
                  <<"capture_jump", Square("d", "3"), Square("c", "3"), FALSE>>,
                  <<"capture_slide", Square("a", "3"), Square("c", "3"),
                    <<Square("b", "3")>>, FALSE>>}],
      [board |-> <<<<Square("d", "1"), "R">>, <<Square("c", "3"), "P">>,
                   <<Square("b", "5"), "n">>>>,
       cells |-> {Square("d", "1"), Square("c", "3"), Square("b", "5"), Square("d", "4"),
                  Square("a", "3")},
       calls |-> {<<"split_slide", Square("b", "5"), Square("d", "4"), Square("a", "3"),
                    <<>>, <<>>>>,
                  <<"capture_jump", Square("c", "3"), Square("d", "4"), TRUE>>,
                  <<"capture_jump", Square("d", "1"), Square("d", "4"), FALSE>>,
                  <<"capture_slide", Square("d", "1"), Square("d", "4"),
                    <<Square("d", "2"), Square("d", "3")>>, FALSE>>,
                  <<"add_ancilla">>,
                  <<"drop_ancilla", 64>>, <<"drop_ancilla", 65>>}],
      [board |-> <<<<Square("c", "2"), "P">>, <<Square("b", "5"), "n">>,
                   <<Square("d", "5"), "r">>>>,
       cells |-> {Square("c", "2"), Square("c", "3"), Square("c", "4"), Square("d", "5"),
                  Square("d", "8")},
       calls |-> {<<"split_slide", Square("b", "5"), Square("c", "3"), Square("a", "3"),
                    <<>>, <<>>>>,
                  <<"normal_slide", Square("c", "2"), Square("c", "4"), <<Square("c", "3")>>>>,
                  <<"split_slide", Square("d", "5"), Square("d", "8"), Square("f", "5"),
                    <<>>, <<>>>>,
                  <<"capture_jump", Square("c", "4"), Square("d", "5"), TRUE>>,
                  <<"drop_ancilla", 64>>}],
      [board |-> <<<<Square("a", "3"), "R">>, <<Square("c", "5"), "n">>,
                   <<Square("f", "5"), "b">>>>,
       cells |-> {Square("a", "3"), Square("b", "3"), Square("d", "3"), Square("c", "5"),
                  Square("f", "5")},
       calls |-> {<<"split_slide", Square("c", "5"), Square("b", "3"), Square("e", "4"),
                    <<>>, <<>>>>,
                  <<"split_slide", Square("f", "5"), Square("d", "3"), Square("g", "6"),
                    <<>>, <<>>>>,
                  <<"blocked_slide", Square("a", "3"), Square("d", "3"), <<Square("b", "3")>>>>,
                  <<"blocked_slide", Square("a", "3"), Square("d", "3"), <<>>>>,
                  <<"normal_slide", Square("a", "3"), Square("a", "4"), <<>>>>}],
      [board |-> <<<<Square("a", "3"), "R">>, <<Square("c", "5"), "n">>,
                   <<Square("b", "6"), "n">>>>,
       cells |-> {Square("a", "3"), Square("b", "3"), Square("c", "3"), Square("a", "4"),
                  Square("a", "5")},
       calls |-> {<<"split_slide", Square("c", "5"), Square("b", "3"), Square("e", "4"),
                    <<>>, <<>>>>,
                  <<"split_slide", Square("b", "6"), Square("a", "4"), Square("c", "8"),
                    <<>>, <<>>>>,
                  <<"split_slide", Square("a", "3"), Square("c", "3"), Square("a", "5"),
                    <<Square("b", "3")>>, <<Square("a", "4")>>>>,
                  <<"normal_slide", Square("a", "3"), Square("c", "3"), <<Square("b", "3")>>>>}],
      [board |-> <<<<Square("d", "3"), "R">>>>,
       cells |-> {Square("b", "3"), Square("c", "3"), Square("d", "3"), Square("d", "4"),
                  Square("d", "5")},
       calls |-> {<<"split_slide", Square("d", "3"), Square("d", "4"), Square("d", "5"),
                    <<>>, <<>>>>,
                  <<"split_slide", Square("d", "4"), Square("d", "5"), Square("b", "3"),
                    <<>>, <<>>>>,
                  <<"split_slide", Square("d", "4"), Square("d", "3"), Square("c", "3"),
                    <<>>, <<>>>>,
                  <<"normal_slide", Square("d", "5"), Square("d", "3"), <<Square("d", "4")>>>>,
                  <<"add_ancilla">>, <<"drop_ancilla", 64>>}]>>

\* the calls of the scenario that call the method name
ProtoCalls(name) == {c \in ProtoScenarios[board].calls : c[1] = name}

ProtoInit ==
    /\ board \in 1..Len(ProtoScenarios)
    /\ game = from_board(ProtoScenarios[board].board)
    /\ op = "init"
    /\ cmd = <<>>
    /\ step = 0
    /\ result = OK
    /\ vacated = {}
    /\ rng = Unseeded

\* the call c returned r; a caller that catches the exception goes on with the object
ProtoCall(c, r) ==
    /\ game' = [r EXCEPT !.err = OK]
    /\ op' = c[1]
    /\ cmd' = c
    /\ step' = step + 1
    /\ result' = r.err
    /\ UNCHANGED <<board, vacated, rng>>

ProtoNormalSlide ==
    /\ step < ProtoMaxOps
    /\ \E c \in ProtoCalls("normal_slide") :
          ProtoCall(c, normal_slide(game, c[2], c[3], c[4]))

ProtoSplitSlide ==
    /\ step < ProtoMaxOps
    /\ \E c \in ProtoCalls("split_slide") :
          ProtoCall(c, split_slide(game, c[2], c[3], c[4], c[5], c[6]))

\* the measuring calls are made without a forced outcome; rnd is what the draw gives
ProtoBlockedSlide ==
    /\ step < ProtoMaxOps
    /\ \E c \in ProtoCalls("blocked_slide"), rnd \in {0, 1} :
          ProtoCall(c, blocked_slide(game, c[2], c[3], c[4], NoneM, rnd))

ProtoCaptureJump ==
    /\ step < ProtoMaxOps
    /\ \E c \in ProtoCalls("capture_jump"), rnd \in {0, 1} :
          ProtoCall(c, capture_jump(game, c[2], c[3], NoneM, rnd, c[4]))

ProtoCaptureSlide ==
    /\ step < ProtoMaxOps
    /\ \E c \in ProtoCalls("capture_slide"), rnd \in {0, 1} :
          ProtoCall(c, capture_slide(game, c[2], c[3], c[4], NoneM, rnd, c[5]))

ProtoAddAncilla ==
    /\ step < ProtoMaxOps
    /\ \E c \in ProtoCalls("add_ancilla") :
          ProtoCall(c, add_ancilla(game))

ProtoDropAncilla ==
    /\ step < ProtoMaxOps
    /\ \E c \in ProtoCalls("drop_ancilla") :
          ProtoCall(c, drop_ancilla(game, {c[2]}))

ProtoNext ==
    \/ ProtoNormalSlide
    \/ ProtoSplitSlide
    \/ ProtoBlockedSlide
    \/ ProtoCaptureJump
    \/ ProtoCaptureSlide
    \/ ProtoAddAncilla
    \/ ProtoDropAncilla

ProtoSpec == ProtoInit /\ [][ProtoNext]_vars

----------------------------------------------------------------------------
(* Properties of the simulator's protocols *)

\* the marginal probability of index is neither 0 nor 1
Undecided(g, index) ==
    ~IsZeroProb(g, ProbNum(g, index)) /\ ~IsOneProb(g, ProbNum(g, index))

\* k2 is the key k without its bit at index
WithoutBit(k, k2, index) ==
    /\ Len(k2) = Len(k) - 1
    /\ \A n \in 1..Len(k2) : k2[n] = (IF n <= index THEN k[n] ELSE k[n + 1])

\* C21: drop_ancilla(index) succeeds only for an index >= 64 whose marginal
\* probability is 0 or 1; it then removes that bit position from every key and
\* that entry from the tag array and leaves every other bit, every amplitude
\* and every other tag as it was; for an ancilla that has not collapsed it
\* fails and changes nothing.
C21_DropAncilla ==
    \A index \in 0..(Len(game.pos2tag) + 1) :
        LET Dropped(r) ==
                /\ r.err = OK =>
                      /\ index >= 64 /\ index < Len(game.pos2tag)
                      /\ ~Undecided(game, index)
                      /\ WithoutBit(game.pos2tag, r.pos2tag, index)
                      /\ r.den = game.den
                      /\ Cardinality(Keys(r)) = Cardinality(Keys(game))
                      /\ \A k \in Keys(game) : \E k2 \in Keys(r) :
                            WithoutBit(k, k2, index) /\ r.coeff[k2] = game.coeff[k]
                /\ (index >= 64 /\ index < Len(game.pos2tag) /\ Undecided(game, index))
                      => (r.err # OK /\ SameBoard(r, game))
        IN  Dropped(drop_ancilla(game, {index}))

\* an ancilla has just been dropped while another one, which holds half a
\* captured piece, is still tracked
C21_Witness ==
    /\ op = "drop_ancilla" /\ result = OK
    /\ \E index \in 64..(Len(game.pos2tag) - 1) : Undecided(game, index)


\* the cells of the board
BoardCells == 0..63

\* the keys k and k2 agree on every cell of the board outside the set ends
SameOutside(k, k2, ends) == \A x \in BoardCells \ ends : k2[x + 1] = k[x + 1]

\* r holds exactly the keys of g that have bit at index equal to outcome, each
\* with its bits on the board and its amplitude as in g, renormalised
Survivors(g, r, index, outcome) ==
    LET kept == {k \in Keys(g) : k[index + 1] = outcome}
    IN  /\ Cardinality(Keys(r)) = Cardinality(kept)
        /\ \A k \in kept : \E k2 \in Keys(r) :
              SameOutside(k, k2, {}) /\ r.coeff[k2] = g.coeff[k]
        /\ r.den = SumAbsSq(g.coeff, kept)

\* capture_jump(src, dst) by a piece that is not a pawn has returned r with
\* outcome 1: the capturing piece stands on dst in every key, and every key
\* is a key of g with the piece on src in which nothing but src and dst differs
CapturedByJump(g, r, src, dst) ==
    /\ \A k2 \in Keys(r) :
          /\ k2[src + 1] = 0 /\ k2[dst + 1] = 1
          /\ \E k \in Keys(g) : k[src + 1] = 1 /\ SameOutside(k, k2, {src, dst})
    /\ r.pos2tag[dst + 1] = g.pos2tag[src + 1]

\* C22 as stated: capture_jump by a piece that is not a pawn measures the
\* occupancy of src.  On outcome 1 every key afterwards has src empty and dst
\* occupied, dst carries the tag of the capturing piece and the captured piece
\* is on no cell of the board; on outcome 0 no key has a bit changed (the keys
\* with the piece on src are dropped, the others renormalised) and dst keeps
\* the tag it had.
C22_CaptureJumpKeepsTag ==
    \A src \in ProtoScenarios[board].cells, dst \in ProtoScenarios[board].cells :
    \A fix \in {NoneM, 0, 1}, rnd \in {0, 1} :
        LET Done(r) ==
                r.err = OK =>
                    /\ r.last_measure = 1 => CapturedByJump(game, r, src, dst)
                    /\ r.last_measure = 0 =>
                          /\ Survivors(game, r, src, 0)
                          /\ r.pos2tag[dst + 1] = game.pos2tag[dst + 1]
        IN  Done(capture_jump(game, src, dst, fix, rnd, FALSE))

\* C22 with the tag of dst as the code leaves it: on outcome 0 dst keeps its
\* tag where a surviving key has it occupied, and has no tag where the
\* captured piece stood on dst only together with the capturing piece on src.
C22_CaptureJump ==
    \A src \in ProtoScenarios[board].cells, dst \in ProtoScenarios[board].cells :
    \A fix \in {NoneM, 0, 1}, rnd \in {0, 1} :
        LET Done(r) ==
                r.err = OK =>
                    /\ r.last_measure = 1 => CapturedByJump(game, r, src, dst)
                    /\ r.last_measure = 0 =>
                          /\ Survivors(game, r, src, 0)
                          /\ r.pos2tag[dst + 1] =
                                (IF \E k \in Keys(game) : k[src + 1] = 0 /\ k[dst + 1] = 1
                                 THEN game.pos2tag[dst + 1] ELSE None)
        IN  Done(capture_jump(game, src, dst, fix, rnd, FALSE))

\* a capture by jump has found src empty, and with it dst
C22_Witness ==
    /\ op = "capture_jump" /\ result = OK /\ cmd[4] = FALSE
    /\ game.last_measure = 0
    /\ TagAt(game, cmd[3]) = None


\* C23: after a pawn's capture_jump(src, dst) whose measurement finds the pawn
\* on src, every surviving key in which dst was occupied before the move has
\* the pawn on dst and src empty, and every surviving key in which dst was
\* empty has the pawn still on src and dst still empty; no other cell of the
\* board differs.
C23_PawnCapturesWhatIsThere ==
    \A src \in ProtoScenarios[board].cells, dst \in ProtoScenarios[board].cells :
    \A fix \in {NoneM, 0, 1}, rnd \in {0, 1} :
        LET found == {k \in Keys(game) : k[src + 1] = 1}
            Done(r) ==
                (r.err = OK /\ r.last_measure = 1) =>
                    /\ Cardinality(Keys(r)) = Cardinality(found)
                    /\ \A k \in found : \E k2 \in Keys(r) :
                          /\ SameOutside(k, k2, {src, dst})
                          /\ k[dst + 1] = 1 => (k2[dst + 1] = 1 /\ k2[src + 1] = 0)
                          /\ k[dst + 1] = 0 => (k2[src + 1] = 1 /\ k2[dst + 1] = 0)
        IN  Done(capture_jump(game, src, dst, fix, rnd, TRUE))

\* a pawn has been found on src and has captured where there was a piece: it
\* now stands on dst in some keys and on src in the others
C23_Witness ==
    /\ op = "capture_jump" /\ result = OK /\ cmd[4] = TRUE
    /\ game.last_measure = 1
    /\ TagAt(game, cmd[2]) \in {"P", "p"}
    /\ TagAt(game, cmd[3]) = TagAt(game, cmd[2])


----------------------------------------------------------------------------
(* Properties of the pawn's en passant *)

\* the source and the destination of the command c, a move of one piece
CmdSrc(c) == hf_convert_pos_to_int(parse_cmd(c).src)
CmdDst(c) == hf_convert_pos_to_int(parse_cmd(c).dst)

\* the cell of the pawn that src -> dst captures en passant
PassedCell(src, dst) == Pos(File(dst), Rank(src))

\* the command c is an en passant in g by a pawn that is certainly on its
\* source, of a pawn that is certainly on its cell
CertainEnPassant(g, c) ==
    /\ CmdKind(g, c) = "en-passant"
    /\ Certain(g, CmdSrc(c))
    /\ Certain(g, PassedCell(CmdSrc(c), CmdDst(c)))

\* in h the cells src and cap are empty and dst holds the piece that g has on
\* src, in every key, and nothing else on the board differs from g
EnPassantEffect(g, h, src, cap, dst) ==
    /\ Cardinality(Keys(h)) = Cardinality(Keys(g))
    /\ \A k \in Keys(g) : \E k2 \in Keys(h) :
          /\ SameOutside(k, k2, {src, cap, dst})
          /\ k2[src + 1] = 0 /\ k2[cap + 1] = 0 /\ k2[dst + 1] = 1
    /\ TagAt(h, dst) = TagAt(g, src)
    /\ TagAt(h, src) = None /\ TagAt(h, cap) = None
    /\ \A x \in BoardCells \ {src, cap, dst} : TagAt(h, x) = TagAt(g, x)

\* C24 as stated: when a pawn certainly on src captures en passant to dst a
\* pawn certainly on (dst.file, src.rank), the result is a single basis key in
\* which src and the captured pawn's cell are empty, dst holds the capturing
\* pawn with its own tag, and every other cell is unchanged.
C24_EnPassantSingleKey ==
    [][(op' = "run" /\ result' = OK /\ CertainEnPassant(game, cmd'))
          => /\ Cardinality(Keys(game')) = 1
             /\ EnPassantEffect(game, game', CmdSrc(cmd'),
                                PassedCell(CmdSrc(cmd'), CmdDst(cmd')), CmdDst(cmd'))]_vars

\* C24 for a position with pieces in superposition elsewhere: every key of
\* the position gives one key of the result, in which src and the captured
\* pawn's cell are empty, dst holds the capturing pawn with its own tag, and
\* every other cell is unchanged; the result is a single basis key when the
\* position was one.
C24_EnPassantEffect ==
    [][(op' = "run" /\ result' = OK /\ CertainEnPassant(game, cmd'))
          => EnPassantEffect(game, game', CmdSrc(cmd'),
                             PassedCell(CmdSrc(cmd'), CmdDst(cmd')), CmdDst(cmd'))]_vars

\* the pawn on e5 has just taken en passant the pawn that went from d7 to d5
\* on the ply before, while a knight stands in superposition
C24_Witness ==
    /\ op = "run" /\ result = OK
    /\ cmd = <<"e", "5", ",", "d", "6">>
    /\ Len(game.history) >= 2
    /\ game.history[Len(game.history) - 1] = <<"d", "7", ",", "d", "5">>
    /\ TagAt(game, Square("d", "6")) = "P"
    /\ Cardinality(Keys(game)) > 1


\* the paths tried between operands: empty, one cell or two cells of the scenario
ProtoPaths(ends) ==
    LET free == ProtoScenarios[board].cells \ ends
    IN  {<<>>} \cup {<<c>> : c \in free}
               \cup {p \in free \X free : p[1] < p[2]}

\* every cell of the path is empty in the key k
PathOpen(k, path) == \A x \in SeqSet(path) : k[x + 1] = 0

\* C25: blocked_slide(src, dst, path) first measures the occupancy of dst.  On
\* outcome 1 no key has a bit changed.  On outcome 0, every surviving key with
\* the mover on src and all path cells empty has the mover on dst and src
\* empty afterwards, and every surviving key in which some path cell is
\* occupied has the mover still on src; no other cell differs.
C25_BlockedSlide ==
    \A src \in ProtoScenarios[board].cells, dst \in ProtoScenarios[board].cells :
    \A path \in ProtoPaths({src, dst}) :
    \A fix \in {NoneM, 0, 1}, rnd \in {0, 1} :
        LET free == {k \in Keys(game) : k[dst + 1] = 0}
            Done(r) ==
                r.err = OK =>
                    /\ r.last_measure = 1 => Survivors(game, r, dst, 1)
                    /\ r.last_measure = 0 =>
                          /\ Cardinality(Keys(r)) = Cardinality(free)
                          /\ \A k \in free : \E k2 \in Keys(r) :
                                /\ SameOutside(k, k2, {src, dst})
                                /\ (k[src + 1] = 1 /\ PathOpen(k, path))
                                      => (k2[src + 1] = 0 /\ k2[dst + 1] = 1)
                                /\ (k[src + 1] = 0 \/ ~PathOpen(k, path))
                                      => (k2[src + 1] = k[src + 1] /\ k2[dst + 1] = 0)
        IN  Done(blocked_slide(game, src, dst, path, fix, rnd))

\* a blocked slide along a path has found dst empty: the mover has gone to
\* dst where the path was open and has stayed on src where it was not
C25_Witness ==
    /\ op = "blocked_slide" /\ result = OK
    /\ cmd[4] # <<>>
    /\ game.last_measure = 0
    /\ TagAt(game, cmd[2]) # None
    /\ TagAt(game, cmd[3]) = TagAt(game, cmd[2])


\* the simulator g with the key k alone, at the amplitude it has in g
Branch(g, k) == [g EXCEPT !.coeff = (k :> g.coeff[k])]

\* the key k with the piece taken from src and put on dst
MovedKey(k, src, dst) == [k EXCEPT ![src + 1] = 0, ![dst + 1] = 1]

\* the squared magnitude of the key k2 in h is num/den times that of k in g
MagnitudeRatio(g, k, h, k2, num, den) ==
    ZMul(ZMul(CAbsSq(h.coeff[k2]), g.den), <<den, 0>>)
        = ZMul(ZMul(CAbsSq(g.coeff[k]), h.den), <<num, 0>>)

RECURSIVE SumAt(_, _, _)
\* the amplitude of the key k2 in the superposition of the simulators of the
\* set hs, each brought to the denominator den
SumAt(hs, k2, den) ==
    IF hs = {} THEN CZero
    ELSE LET h == CHOOSE x \in hs : TRUE
             v == IF k2 \in Keys(h)
                  THEN (IF h.den = den THEN h.coeff[k2] ELSE CMulSqrt2(h.coeff[k2]))
                  ELSE CZero
         IN  CAdd(v, SumAt(hs \ {h}, k2, den))

\* r is the superposition of the simulators of hs
Superposition(r, hs) ==
    LET keys == UNION {Keys(h) : h \in hs}
    IN  /\ Keys(r) = {k2 \in keys : SumAt(hs, k2, r.den) # CZero}
        /\ \A k2 \in Keys(r) : r.coeff[k2] = SumAt(hs, k2, r.den)

\* C26: split_slide(src, d1, d2, path1, path2) acts branch by branch: the
\* result is the superposition of what the split makes of each stored key, and
\* of a key with the piece on src and d1, d2 empty it makes: the key with the
\* piece on d1 and the key with the piece on d2, each with half the squared
\* magnitude and none left on src, if all cells of both paths are empty; the
\* key with the piece on d1 if only path1 is open; the key with the piece on
\* d2 if only path2 is open; the key itself if both paths are blocked.
C26_SplitByBranch ==
    \* the splits of the scenario and their mirror images
    \A c \in ProtoCalls("split_slide"), mirror \in BOOLEAN :
    \A src \in {c[2]} :
    \A d1 \in {IF mirror THEN c[4] ELSE c[3]}, d2 \in {IF mirror THEN c[3] ELSE c[4]} :
    \A path1 \in {IF mirror THEN c[6] ELSE c[5]}, path2 \in {IF mirror THEN c[5] ELSE c[6]} :
        LET Split(h) == split_slide(h, src, d1, d2, path1, path2)
            \* rb: what the split makes of the key k alone
            Image(k, rb) ==
                LET o1 == PathOpen(k, path1)
                    o2 == PathOpen(k, path2)
                    k1 == MovedKey(k, src, d1)
                    k2 == MovedKey(k, src, d2)
                IN  /\ (o1 /\ o2) =>
                          /\ Keys(rb) = {k1, k2}
                          /\ MagnitudeRatio(game, k, rb, k1, 1, 2)
                          /\ MagnitudeRatio(game, k, rb, k2, 1, 2)
                    /\ (o1 /\ ~o2) =>
                          (Keys(rb) = {k1} /\ MagnitudeRatio(game, k, rb, k1, 1, 1))
                    /\ (~o1 /\ o2) =>
                          (Keys(rb) = {k2} /\ MagnitudeRatio(game, k, rb, k2, 1, 1))
                    /\ (~o1 /\ ~o2) =>
                          (Keys(rb) = {k} /\ MagnitudeRatio(game, k, rb, k, 1, 1))
            Done(r) ==
                r.err = OK =>
                    /\ Superposition(r, {Split(Branch(game, k)) : k \in Keys(game)})
                    /\ \A k \in Keys(game) :
                          (k[src + 1] = 1 /\ k[d1 + 1] = 0 /\ k[d2 + 1] = 0)
                              => Image(k, Split(Branch(game, k)))
        IN  Done(Split(game))

\* a piece has just been split along two paths that each held half a piece:
\* it stands on d1 where only path1 or both paths were open, on d2 where only
\* path2 or both were open, and on src where both were blocked
C26_Witness ==
    /\ op = "split_slide" /\ result = OK
    /\ cmd[5] # <<>> /\ cmd[6] # <<>>
    /\ \E k \in Keys(game) : k[cmd[3] + 1] = 1 /\ PathOpen(k, cmd[5]) /\ PathOpen(k, cmd[6])
    /\ \E k \in Keys(game) : k[cmd[4] + 1] = 1 /\ PathOpen(k, cmd[5]) /\ PathOpen(k, cmd[6])
    /\ \E k \in Keys(game) : k[cmd[3] + 1] = 1 /\ PathOpen(k, cmd[5]) /\ ~PathOpen(k, cmd[6])
    /\ \E k \in Keys(game) : k[cmd[4] + 1] = 1 /\ ~PathOpen(k, cmd[5]) /\ PathOpen(k, cmd[6])
    /\ \E k \in Keys(game) : k[cmd[2] + 1] = 1 /\ ~PathOpen(k, cmd[5]) /\ ~PathOpen(k, cmd[6])


\* the control and negate-control lists the gates are tried with: no cell, or
\* one cell apart from the two ends that holds a piece in some stored key
GateCells(ends) ==
    {{}} \cup {{c} : c \in {x \in ProtoScenarios[board].cells \ ends : TagAt(game, x) # None}}

\* the key k with the bits of src and dst exchanged
Exchanged(k, src, dst) == [k EXCEPT ![src + 1] = k[dst + 1], ![dst + 1] = k[src + 1]]

\* what the property of the gated swap says of the simulator g and the result r
\* of a swap of src and dst; negate_control is <<>> when no list is given
GatedSwapFrame(g, r, src, dst, control, negate_control, tag_inverse) ==
    LET Unchanged(k) ==
            \/ k[src + 1] = 1 /\ k[dst + 1] = 1
            \/ k[src + 1] = 0 /\ k[dst + 1] = 0
            \/ \E x \in control : k[x + 1] = 1
            \/ negate_control # <<>> /\ \A x \in negate_control[1] : k[x + 1] = 0
        Target(k) == IF Unchanged(k) THEN k ELSE Exchanged(k, src, dst)
        Amplitude(k) == IF Unchanged(k) THEN g.coeff[k]
                        ELSE IF tag_inverse THEN CNeg(CMulI(g.coeff[k]))
                        ELSE CMulI(g.coeff[k])
    IN  /\ r.den = g.den
        /\ Keys(r) = {Target(k) : k \in Keys(g)}
        /\ Cardinality(Keys(r)) = Cardinality(Keys(g))
        /\ \A k \in Keys(g) : r.coeff[Target(k)] = Amplitude(k)
        /\ \A k \in Keys(g) : \A x \in 1..Len(k) :
              x \notin {src + 1, dst + 1} => Target(k)[x] = k[x]

\* C27: apply_iswap(src, dst, control, negate_control), and therefore
\* normal_slide, leaves key and amplitude unchanged for every stored key in
\* which both src and dst are occupied, both are empty, some control cell is
\* occupied or, when a negate-control list is given, all its cells are empty;
\* every other key has exactly its src and dst bits exchanged and its
\* amplitude multiplied by i (by -i when inverted); no other bit changes.
C27_GatedSwapFrame ==
    /\ \A src \in {c \in ProtoScenarios[board].cells : TagAt(game, c) # None} :
       \A dst \in ProtoScenarios[board].cells \ {src} :
       \A control \in GateCells({src, dst}) :
       \A negate_control \in {<<>>} \cup {<<s>> : s \in GateCells({src, dst})} :
       \A tag_inverse \in BOOLEAN :
          LET Done(r) ==
                  r.err = OK => GatedSwapFrame(game, r, src, dst, control,
                                               negate_control, tag_inverse)
          IN  Done(apply_iswap(game, src, dst, control, negate_control, tag_inverse))
    /\ \A c \in ProtoCalls("normal_slide") :
          LET Done(r) ==
                  r.err = OK => GatedSwapFrame(game, r, c[2], c[3], SeqSet(c[4]),
                                               <<>>, FALSE)
          IN  Done(normal_slide(game, c[2], c[3], c[4]))

\* a piece has just slid along a path that held a piece in superposition: it
\* stays on src where the path is occupied and stands on dst where it is open
C27_Witness ==
    /\ op = "normal_slide" /\ result = OK
    /\ cmd[4] # <<>>
    /\ \E k \in Keys(game) : k[cmd[2] + 1] = 1 /\ k[cmd[3] + 1] = 0 /\ ~PathOpen(k, cmd[4])
    /\ \E k \in Keys(game) : k[cmd[2] + 1] = 0 /\ k[cmd[3] + 1] = 1 /\ PathOpen(k, cmd[4])


-----------------------------------------------------------------------------
(* The memoized probabilities: the simulator with its _cache_probability, which
   holds for an index the probability as <<numerator, den>>.  Each action is one
   public method of the simulator, with what the method does to the cache.  A
   method that reads a probability reads the recomputed one: that is what the
   cache returns as long as no entry is stale. *)

CacheMaxOps == 3
CacheMaxAncilla == 1

CacheBoards ==
    <<<<<<Square("b", "3"), "R">>, <<Square("d", "3"), "r">>>>,
      <<<<Square("c", "3"), "P">>>>>>

CacheCells == {Square("b", "3"), Square("c", "3"), Square("d", "3")}

\* the indices the methods are called with: the cells, the ancillas and one
\* index past the last ancilla
CacheIndices == CacheCells \cup (64..(64 + CacheMaxAncilla))

\* self._cache_probability = dict()
EmptyCache == [i \in {} |-> <<ZZero, ZOne>>]

WithCache(g, c) == [f \in DOMAIN g \cup {"cache"} |-> IF f = "cache" THEN c ELSE g[f]]

\* self._cache_probability.clear()
CacheClear(g) == [g EXCEPT !.cache = EmptyCache]

\* self._cache_probability.pop(index, None)
CachePop(g, index) ==
    [g EXCEPT !.cache = [i \in DOMAIN g.cache \ {index} |-> g.cache[i]]]

\* _get_probability_i for every index of the set read: an index that is not in
\* the cache is computed and stored
CacheFill(g, read) ==
    [g EXCEPT !.cache = [i \in DOMAIN g.cache \cup read |->
                            IF i \in DOMAIN g.cache THEN g.cache[i]
                            ELSE <<get_probability_i(g, i), g.den>>]]

\* a probability query that keeps only the keys in which the index is occupied
cached_get_probability_i_collapsing(g, index) ==
    IF index \in DOMAIN g.cache THEN g
    ELSE IF ~(0 <= index /\ index < Len(g.pos2tag)) THEN Raise(g, AssertionError)
    ELSE CacheFill(drop_coeff(g, {k \in Keys(g) : k[index + 1] = 0}), {index})

\* _get_probability_i(index) as a call of its own
cached_get_probability_i(g, index) ==
    IF index \in DOMAIN g.cache THEN g
    ELSE IF ~(0 <= index /\ index < Len(g.pos2tag)) THEN Raise(g, AssertionError)
    ELSE CacheFill(g, {index})

\* the gates clear the cache after their assertions
cached_apply_sqrtiswap(g, src, dst, control, negate_control, tag_inverse) ==
    LET Done(r) == IF r.err # OK THEN r ELSE CacheClear(r)
    IN  Done(apply_sqrtiswap(g, src, dst, control, negate_control, tag_inverse))

cached_apply_iswap(g, src, dst, control, negate_control, tag_inverse) ==
    LET Done(r) == IF r.err # OK THEN r ELSE CacheClear(r)
    IN  Done(apply_iswap(g, src, dst, control, negate_control, tag_inverse))

cached_change_tag(g, index, label) ==
    LET Done(r) == IF r.err # OK THEN r ELSE CachePop(r, index)
    IN  Done(change_tag(g, index, label))

\* a drop_coeff that leaves the cache as it is
cached_drop_coeff_kept(g, key_list) == drop_coeff(g, key_list)

\* drop_coeff clears the cache when it is given a key, before it drops it
cached_drop_coeff(g, key_list) ==
    IF key_list = {} THEN drop_coeff(g, key_list) ELSE CacheClear(drop_coeff(g, key_list))

\* measure reads the probability of index, and where it goes on it ends with
\* drop_ancilla, which clears the cache
cached_measure(g, index, fix, rnd) ==
    LET Done(r) ==
            IF index < 0 \/ index >= Len(g.pos2tag) THEN r
            ELSE IF r.err # OK THEN [r EXCEPT !.cache = CacheFill(g, {index}).cache]
            ELSE CacheClear(r)
    IN  Done(measure(g, index, fix, rnd))

\* drop_ancilla reads the probabilities in ascending order of the indices and
\* stops at the first that is out of range or undecided
cached_drop_ancilla(g, index) ==
    LET stop == {x \in index : \/ x >= Len(g.pos2tag)
                               \/ LET p == get_probability_i(g, x)
                                  IN  ~(IsZeroProb(g, p) \/ IsOneProb(g, p))}
        read == {x \in index : /\ x < Len(g.pos2tag)
                               /\ \A y \in stop : x <= y}
        Done(r) ==
            IF \E x \in index : x < 64 THEN r
            ELSE IF r.err # OK THEN [r EXCEPT !.cache = CacheFill(g, read).cache]
            ELSE CacheClear(r)
    IN  Done(drop_ancilla(g, index))

\* add_ancilla does not touch the cache
cached_add_ancilla(g) == add_ancilla(g)

cached_add_piece(g, pos, tag) ==
    LET Done(r) == IF r.err # OK THEN r ELSE CacheClear(r)
    IN  Done(sim_add_piece(g, pos, tag))

\* remove_piece reads the probability of pos in its assertion
cached_remove_piece(g, pos) ==
    LET Done(r) ==
            IF ~(0 <= pos /\ pos < Len(g.pos2tag)) THEN r
            ELSE IF r.err # OK THEN [r EXCEPT !.cache = CacheFill(g, {pos}).cache]
            ELSE CacheClear(r)
    IN  Done(sim_remove_piece(g, pos))

cached_remove_all_piece(g) ==
    CacheClear([g EXCEPT !.coeff = [k \in {List([n \in 1..64 |-> 0])} |-> COne],
                         !.den = ZOne,
                         !.pos2tag = List([n \in 1..64 |-> None])])

CacheInit ==
    /\ board \in 1..Len(CacheBoards)
    /\ game = WithCache(from_board(CacheBoards[board]), EmptyCache)
    /\ op = "init"
    /\ cmd = <<>>
    /\ step = 0
    /\ result = OK
    /\ vacated = {}
    /\ rng = Unseeded

\* a call c that gives r; a caller that catches the exception goes on with
\* what the call left
CacheCall(c, r) ==
    /\ step < CacheMaxOps
    /\ game' = [r EXCEPT !.err = OK]
    /\ op' = c[1]
    /\ cmd' = c
    /\ step' = step + 1
    /\ result' = r.err
    /\ UNCHANGED <<board, vacated, rng>>

\* the cells and ancillas the simulator has
CacheHeld == {x \in CacheIndices : x < Len(game.pos2tag)}

CacheGetProbability ==
    \E index \in CacheIndices :
        CacheCall(<<"_get_probability_i", index>>, cached_get_probability_i(game, index))

CacheSqrtIswap ==
    \E src \in CacheHeld, dst \in CacheHeld :
        CacheCall(<<"apply_sqrtiswap", src, dst>>,
                  cached_apply_sqrtiswap(game, src, dst, {}, <<>>, FALSE))

CacheIswap ==
    \E src \in CacheHeld, dst \in CacheHeld :
        CacheCall(<<"apply_iswap", src, dst>>,
                  cached_apply_iswap(game, src, dst, {}, <<>>, FALSE))

CacheChangeTag ==
    \E index \in CacheIndices :
        CacheCall(<<"change_tag", index, "Q">>, cached_change_tag(game, index, "Q"))

\* the keys that have the bit b at a cell, as measure lists them
CacheDropCoeff ==
    \E c \in CacheCells, b \in {0, 1} :
        CacheCall(<<"drop_coeff", c, b>>,
                  cached_drop_coeff(game, {k \in Keys(game) : k[c + 1] = b}))

CacheMeasure ==
    \E index \in CacheIndices, fix \in {NoneM, 0, 1}, rnd \in {0, 1} :
        /\ fix # NoneM => rnd = fix
        /\ CacheCall(<<"measure", index, fix, rnd>>, cached_measure(game, index, fix, rnd))

CacheDropAncilla ==
    \E index \in {{x} : x \in CacheIndices} \cup {64..(64 + CacheMaxAncilla)} :
        CacheCall(<<"drop_ancilla", index>>, cached_drop_ancilla(game, index))

CacheAddAncilla ==
    /\ Len(game.pos2tag) < 64 + CacheMaxAncilla
    /\ CacheCall(<<"add_ancilla">>, cached_add_ancilla(game))

CacheAddPiece ==
    \E pos \in CacheIndices :
        CacheCall(<<"add_piece", pos, "N">>, cached_add_piece(game, pos, "N"))

CacheRemovePiece ==
    \E pos \in CacheIndices :
        CacheCall(<<"remove_piece", pos>>, cached_remove_piece(game, pos))

CacheRemoveAllPiece ==
    CacheCall(<<"remove_all_piece">>, cached_remove_all_piece(game))

CacheNext ==
    \/ CacheGetProbability
    \/ CacheSqrtIswap
    \/ CacheIswap
    \/ CacheChangeTag
    \/ CacheDropCoeff
    \/ CacheMeasure
    \/ CacheDropAncilla
    \/ CacheAddAncilla
    \/ CacheAddPiece
    \/ CacheRemovePiece
    \/ CacheRemoveAllPiece

CacheSpec == CacheInit /\ [][CacheNext]_vars

\* the cached value c is the probability that the amplitude map of g gives the
\* index: the sum of the squared magnitudes of the keys with bit 1 there
Recomputed(g, index, c) ==
    /\ index < Len(g.pos2tag)
    /\ ZMul(c[1], g.den) = ZMul(ProbNum(g, index), c[2])

\* C28: in every reachable simulator state every value held in the cache for an
\* index equals the marginal probability recomputed from the amplitude map; no
\* gate, measurement, tag change, piece edit or ancilla operation leaves a
\* stale entry.
C28_CacheCoherent ==
    \A index \in DOMAIN game.cache : Recomputed(game, index, game.cache[index])

\* a tag has just been changed while the cache held the probability of another
\* cell, one that holds half a piece
C28_Witness ==
    /\ op = "change_tag" /\ result = OK
    /\ \E index \in DOMAIN game.cache :
          LET p == ProbNum(game, index)
          IN  ~IsZeroProb(game, p) /\ ~IsOneProb(game, p)


\* the endpoints the protocols are tried with: the cells that hold a piece, an
\* index below the board and two above it
OperandEnds == {c \in ProtoScenarios[board].cells : TagAt(game, c) # None}
                   \cup {0 - 1, 64, 65}

\* the paths they are tried with: empty, one cell or index, or a cell twice
OperandPaths ==
    {<<>>} \cup {<<c>> : c \in OperandEnds}
           \cup {<<c, c>> : c \in ProtoScenarios[board].cells}

\* two of the endpoints coincide, an endpoint or path index is outside 0..63,
\* the path contains a duplicate, or an endpoint lies inside the path
InvalidOperands(ends, distinct, path) ==
    \/ Cardinality(ends) < distinct
    \/ \E x \in ends \cup SeqSet(path) : x < 0 \/ x > 63
    \/ Cardinality(SeqSet(path)) < Len(path)
    \/ ends \cap SeqSet(path) # {}

\* the call was refused with QChessInvalidCommand and has changed neither the
\* amplitude map nor the tags
Refused(g, r) ==
    /\ r.err = QChessInvalidCommand
    /\ r.coeff = g.coeff /\ r.den = g.den /\ r.pos2tag = g.pos2tag

\* C29: each composite protocol (normal_slide, blocked_slide, split_slide,
\* merge_slide, capture_jump, capture_slide) raises QChessInvalidCommand, before
\* changing the amplitude map or tags, when two of its endpoint cells coincide,
\* an endpoint or path index is outside 0..63, the path contains a duplicate,
\* or an endpoint lies inside a path.
C29_OperandValidation ==
    /\ \A src \in OperandEnds, dst \in OperandEnds, path \in OperandPaths :
          InvalidOperands({src, dst}, 2, path) =>
              /\ Refused(game, normal_slide(game, src, dst, path))
              /\ Refused(game, blocked_slide(game, src, dst, path, NoneM, 0))
              /\ Refused(game, capture_slide(game, src, dst, path, NoneM, 1, FALSE))
    /\ \A src \in OperandEnds, dst \in OperandEnds :
          InvalidOperands({src, dst}, 2, <<>>) =>
              Refused(game, capture_jump(game, src, dst, NoneM, 1, FALSE))
    /\ \A a \in OperandEnds, b \in OperandEnds, c \in OperandEnds :
       \A path \in OperandPaths, first \in BOOLEAN :
          InvalidOperands({a, b, c}, 3, path) =>
              LET path1 == IF first THEN path ELSE <<>>
                  path2 == IF first THEN <<>> ELSE path
              IN  /\ Refused(game, split_slide(game, a, b, c, path1, path2))
                  /\ Refused(game, merge_slide(game, a, b, c, path1, path2))


-----------------------------------------------------------------------------
(* Custom construction: from_board on lists of distinct (square, tag) pairs
   in any order *)

BoardMaxPieces == 3
BoardSquares == {Square("c", "3"), Square("d", "3"), Square("a", "1")}
BoardTags == {"R", "r", "P"}

\* the lists of n pairs
RECURSIVE BoardLists(_)
BoardLists(n) ==
    IF n = 0 THEN {<<>>}
    ELSE {Append(l, <<s, t>>) : l \in BoardLists(n - 1), s \in BoardSquares, t \in BoardTags}

\* the lists from_board accepts: at least one pair, no square twice
BoardInputs ==
    {l \in UNION {BoardLists(n) : n \in 1..BoardMaxPieces} :
        Cardinality({l[n][1] : n \in 1..Len(l)}) = Len(l)}

\* a caller that holds a list and has not yet built the simulator
BoardInit ==
    /\ cmd \in BoardInputs
    /\ game = StandardGame
    /\ board = 1
    /\ op = "init"
    /\ step = 0
    /\ result = OK
    /\ vacated = {}
    /\ rng = Unseeded

FromBoard ==
    /\ op = "init"
    /\ game' = from_board(cmd)
    /\ op' = "from_board"
    /\ step' = step + 1
    /\ result' = game'.err
    /\ UNCHANGED <<board, cmd, vacated, rng>>

BoardSpec == BoardInit /\ [][FromBoard]_vars

\* C30: from_board, given any list of distinct (square, tag) pairs in any
\* order, yields a simulator with a single basis key of amplitude 1 whose set
\* bits are exactly the listed squares, where every listed square carries
\* exactly the tag listed with it and every other cell has tag None.
C30_FromBoard ==
    op = "from_board" =>
        /\ result = OK
        /\ Cardinality(Keys(game)) = 1
        /\ \A k \in Keys(game) :
              /\ game.coeff[k] = COne /\ game.den = ZOne
              /\ {x \in 0..(Len(k) - 1) : k[x + 1] = 1} = {cmd[n][1] : n \in 1..Len(cmd)}
        /\ \A n \in 1..Len(cmd) : TagAt(game, cmd[n][1]) = cmd[n][2]
        /\ \A x \in 0..63 : x \notin {cmd[n][1] : n \in 1..Len(cmd)} => TagAt(game, x) = None


-----------------------------------------------------------------------------
(* The order of the enumeration *)

\* the cell a command starts with
FirstCell(c) == hf_convert_pos_to_int(<<c[1], c[2]>>)

\* a game that differs from g in what the enumerator has no reason to read: the
\* history, the last outcome and the pending forced outcome
SamePosition(g, last, prefix) ==
    [g EXCEPT !.history = <<>>, !.last_measure = last, !.prefix_measure = prefix]

\* C31: get_all_available_move() returns the same sequence on games of equal
\* amplitude map, tags, step counter, castling flags and double-step
\* timestamps, and in that sequence the commands are grouped by source cell in
\* increasing linear index: every command starts with its source cell, and the
\* commands of a lower-indexed source precede those of a higher-indexed one.
C31_StableEnumeration ==
    ~get_all_available_move_raises(game) =>
        LET Ordered(moves) ==
                /\ \A n \in 1..(Len(moves) - 1) :
                      FirstCell(moves[n]) <= FirstCell(moves[n + 1])
                /\ \A x \in 0..63 :
                      \A c \in SeqSet(get_all_available_move_i(game, x)) : FirstCell(c) = x
                /\ \A v \in {<<0, 1>>, <<1, NoneM>>} :
                      get_all_available_move(SamePosition(game, v[1], v[2])) = moves
        IN  Ordered(get_all_available_move(game))

\* an enumeration of many cells that holds a merge, and moves of cells after
\* the two that merge
C31_Witness ==
    /\ ~get_all_available_move_raises(game)
    /\ Len(game.history) >= 2
    /\ LET Held(moves) ==
               /\ Cardinality({FirstCell(moves[n]) : n \in 1..Len(moves)}) >= 8
               /\ \E n \in 1..Len(moves) :
                     /\ Cardinality(SourceCells(moves[n])) = 2
                     /\ \E m \in (n + 1)..Len(moves) :
                           \A x \in SourceCells(moves[n]) :
                               hf_convert_pos_to_int(x) < FirstCell(moves[m])
       IN  Held(get_all_available_move(game))


-----------------------------------------------------------------------------
(* Castling *)

\* the command KR,K'R'
CmdCastling(srcK, srcR, dstK, dstR) ==
    PosStr(srcK) \o PosStr(srcR) \o <<",">> \o PosStr(dstK) \o PosStr(dstR)

\* four-square commands around the two back ranks
FourSquareCmds ==
    {<<srcK, srcR, dstK, dstR>> :
        srcK \in {Pos(4, 0), Pos(4, 7), Pos(3, 0)},
        srcR \in {Pos(0, 0), Pos(7, 0), Pos(0, 7), Pos(7, 7)},
        dstK \in {Pos(2, 0), Pos(6, 0), Pos(2, 7), Pos(6, 7), Pos(3, 0)},
        dstR \in {Pos(3, 0), Pos(5, 0), Pos(3, 7), Pos(5, 7), Pos(2, 0)}}

\* the conditions of a castling t in the game g: a fixed template, king and
\* rook certainly on their origin cells, the right of that corner still set
\* and every cell between king and rook empty
CastlingAllowed(g, t) ==
    /\ t \in SeqSet(CastlingTemplates)
    /\ TagAt(g, t[1]) = (IF is_white(g) THEN "K" ELSE "k") /\ Certain(g, t[1])
    /\ TagAt(g, t[2]) = (IF is_white(g) THEN "R" ELSE "r") /\ Certain(g, t[2])
    /\ (IF is_white(g) THEN g.tag_wcastling ELSE g.tag_bcastling)[IF File(t[2]) = 0 THEN 1 ELSE 2]
    /\ \A n \in 1..Len(RawPath(t[1], t[2])) : TagAt(g, RawPath(t[1], t[2])[n]) = None

\* C32: run_short_cmd executes a four-square command KR,K'R' as castling only
\* if it is one of e1a1,c1d1 / e1h1,g1f1 / e8a8,c8d8 / e8h8,g8f8 with king and
\* rook certainly on their origin cells, the corresponding right still set and
\* every cell between them empty; any other four-square command is rejected
\* without moving anything.
C32_CastlingTemplatesOnly ==
    \A t \in FourSquareCmds :
        LET Done(r) ==
                /\ r.err = OK => CastlingAllowed(game, t)
                /\ ~CastlingAllowed(game, t) => (r.err # OK /\ SameBoard(r, game))
        IN  Done(run_short_cmd(game, CmdCastling(t[1], t[2], t[3], t[4]), 0))


\* the corner cells of the side to move in g
OwnCorners(g) == IF is_white(g) THEN {Pos(0, 0), Pos(7, 0)} ELSE {Pos(0, 7), Pos(7, 7)}

\* the right that is_valid_castling reads for the rook of the corner cell c
CornerRight(g, c) ==
    (IF Rank(c) = 0 THEN g.tag_wcastling ELSE g.tag_bcastling)[IF File(c) = 0 THEN 1 ELSE 2]

\* the move c of the game g is a move of a rook of the side to move from one of
\* its corner cells
RookLeavesCorner(g, c) ==
    /\ CmdSrc(c) \in OwnCorners(g)
    /\ TagAt(g, CmdSrc(c)) = (IF is_white(g) THEN "R" ELSE "r")

\* C33: after a move_rook from a corner cell of side S, the castling right of
\* S for the opposite corner is unchanged and the rights of the other side are
\* unchanged, for white exactly as for black.
C33_OtherRightsKept ==
    [][(op' = "run" /\ result' = OK /\ RookLeavesCorner(game, cmd'))
          => \A c \in {Pos(0, 0), Pos(7, 0), Pos(0, 7), Pos(7, 7)} \ {CmdSrc(cmd')} :
                 CornerRight(game', c) = CornerRight(game, c)]_vars


\* the pawn move c of the game g, whose result is h, measured and left the pawn
\* off its destination: the cell ahead was found occupied, or the capturing
\* pawn was found absent from its source
PawnLeftOff(g, c, h) ==
    \/ CmdKind(g, c) = "one-step-blocked-move" /\ h.last_measure = 1
    \/ CmdKind(g, c) = "capture" /\ h.last_measure = 0

\* C34: promotion relabels only the promoting pawn. After a pawn move with a
\* promotion letter whose measurement leaves the pawn off the destination
\* (blocked, or found absent from its source), the destination cell keeps the
\* tag it had; so no cell occupied by an opposing piece gets a tag of the
\* mover's colour.
C34_PromotionOnlyOfPawn ==
    [][(/\ op' = "run"
        /\ parse_cmd(cmd').promotion # None
        /\ PawnLeftOff(game, cmd', game'))
          => TagAt(game', CmdDst(cmd')) = TagAt(game, CmdDst(cmd'))]_vars


----------------------------------------------------------------------------
(* Captures by a piece in superposition: games from a custom board where the
   capturing piece may be found absent from its source *)

PassDepth == 7

\* 1: a white pawn on e2 behind the cell e3, onto which the knight on g4 can
\*    split; black pawns on d7 and h7; from f6 the knight can take the pawn on
\*    d7 and the king on e8.
\* 2: a white rook on h1 that can take the king on h8, and a black pawn on b2
\*    one step from promotion.
PassScenarios ==
    <<[pieces |-> <<<<Square("e", "1"), "K">>, <<Square("e", "8"), "k">>,
                    <<Square("e", "2"), "P">>, <<Square("g", "4"), "N">>,
                    <<Square("d", "7"), "p">>, <<Square("h", "7"), "p">>>>,
       cmds |-> {<<"g", "4", ",", "e", "3", "f", "6">>, <<"h", "7", ",", "h", "6">>,
                 <<"e", "2", ",", "e", "4">>, <<"h", "6", ",", "h", "5">>,
                 <<"e", "4", ",", "e", "5">>, <<"d", "7", ",", "d", "5">>,
                 <<"e", "5", ",", "d", "6">>, <<"d", "7", ",", "d", "6">>,
                 <<"f", "6", ",", "d", "7">>, <<"e", "8", ",", "e", "7">>,
                 <<"f", "6", ",", "e", "8">>}],
      [pieces |-> <<<<Square("e", "1"), "K">>, <<Square("h", "8"), "k">>,
                    <<Square("h", "1"), "R">>, <<Square("b", "2"), "p">>>>,
       cmds |-> {<<"h", "1", ",", "h", "8">>, <<"h", "1", ",", "h", "4", "h", "8">>,
                 <<"b", "2", ",", "b", "1", "q">>, <<"b", "2", ",", "b", "1", "n">>,
                 <<"e", "1", ",", "d", "1">>, <<"h", "8", ",", "g", "8">>,
                 <<"h", "8", ",", "g", "7", "h", "7">>, <<"h", "4", ",", "h", "7">>}]>>

PassInit ==
    /\ board \in 1..Len(PassScenarios)
    /\ game = CustomGame(PassScenarios[board].pieces)
    /\ op = "init"
    /\ cmd = <<>>
    /\ step = 0
    /\ result = OK
    /\ vacated = {}
    /\ rng = Unseeded

\* game.run_short_cmd(c) of a command that succeeds
PassMove ==
    /\ game.current_step < PassDepth
    /\ \E c \in PassScenarios[board].cmds, rnd \in {0, 1} :
          LET Done(r) ==
                  /\ r.err = OK
                  /\ game' = r
                  /\ op' = "run"
                  /\ cmd' = c
                  /\ step' = 0
                  /\ result' = OK
          IN  Done(run_short_cmd(game, c, rnd))
    /\ UNCHANGED <<board, vacated, rng>>

PassSpec == PassInit /\ [][PassMove]_vars

\* C35: a failed capture relocates nothing. If the measurement of a capturing
\* move (capture by jump or slide, pawn capture, en passant) yields outcome 0,
\* every key stored after the move is one of the keys stored before it, and no
\* cell holds a piece it did not hold before.
C35_FailedCaptureFrame ==
    [][(/\ op' = "run"
        /\ CmdKind(game, cmd') \in {"capture", "en-passant"}
        /\ game'.last_measure = 0)
          => /\ Keys(game') \subseteq Keys(game)
             /\ \A x \in 0..63 : TagAt(game', x) \in {None, TagAt(game, x)}]_vars


\* the castling flags of the side whose turn it is in g, read from h
OwnRights(g, h) == IF is_white(g) THEN h.tag_wcastling ELSE h.tag_bcastling

\* the origin cell of the king of the side whose turn it is in g
OwnKingCell(g) == IF is_white(g) THEN Pos(4, 0) ELSE Pos(4, 7)

\* the king of the side to move in g certainly stands on its origin cell in h
KingAtOrigin(g, h) ==
    /\ TagAt(h, OwnKingCell(g)) = (IF is_white(g) THEN "K" ELSE "k")
    /\ Certain(h, OwnKingCell(g))

\* the entries of the history that are castlings of the king on the rank r
Castlings(history, r) ==
    {n \in 1..Len(history) :
        /\ parse_cmd(history[n]).src1 # <<>>
        /\ parse_cmd(history[n]).dst1 # <<>>
        /\ parse_cmd(history[n]).src[2] = r}

KingTag(g, tag) == \E n \in 1..64 : g.pos2tag[n] = tag

\* C37: termination is irreversible. Once is_finish_or_not() returns a value
\* other than 'continue', no later run_short_cmd makes it return 'continue'
\* again, because a king tag that has disappeared from the 64 board cells
\* never reappears.
C37_FinishIrreversible ==
    [][op' = "run"
         => /\ \A tag \in {"K", "k"} : KingTag(game', tag) => KingTag(game, tag)
            /\ is_finish_or_not(game) # "continue"
                  => is_finish_or_not(game') # "continue"]_vars

\* the black pawn has been promoted after the black king was taken
C37_Witness ==
    /\ op = "run"
    /\ parse_cmd(cmd).promotion # None
    /\ TagAt(game, CmdDst(cmd)) \in {"q", "n"}
    /\ is_finish_or_not(game) = "white"


----------------------------------------------------------------------------
(* Queries: the game with the _cache_probability of its simulator.  A query is
   modelled by what it does to the game: the lookups self[x] it makes, each of
   which stores the probability it computes. *)

QueryMaxOps == 3

\* the cells the queries are asked about
QueryCells ==
    {Square("e", "1"), Square("h", "1"), Square("h", "4"), Square("h", "8"),
     Square("g", "7"), Square("h", "7"), Square("b", "2"), Square("a", "1")}

\* the game without the cache
Uncached(g) == [f \in DOMAIN g \ {"cache"} |-> g[f]]

\* QChessGame.__getitem__: the probability is asked only for a cell with a tag
getitem(g, key) ==
    IF g.pos2tag[key + 1] = None THEN g ELSE cached_get_probability_i(g, key)

RECURSIVE GetItems(_, _)
\* self[x] for the cells of keys, in their order
GetItems(g, keys) ==
    IF keys = <<>> \/ g.err # OK THEN g ELSE GetItems(getitem(g, Head(keys)), Tail(keys))

\* the lookups of is_valid_move_rook(src, None, dst, None): src and dst, then
\* the cells between them once the move is along a line
rook_lookups(g, src, dst) ==
    <<src, dst>> \o
    (IF is_valid_move_preprocess(g, src, NoPos, dst, NoPos, "R") /\ hf0("R", src, dst)
     THEN RawPath(src, dst) ELSE <<>>)

\* the lookups of is_valid_move_pawn(src, dst, None): src, dst and the cell
\* ahead, then the cell beside src when dst is an empty cell diagonally ahead
pawn_lookups(g, src, dst) ==
    LET fwd == IF is_white(g) THEN 1 ELSE 0 - 1
        ahead == Pos(File(src), Rank(src) + fwd)
        diag == Rank(dst) = Rank(src) + fwd /\ File(dst) \in {File(src) - 1, File(src) + 1}
    IN  <<src, dst, ahead>> \o
        (IF /\ TagAt(g, src) = (IF is_white(g) THEN "P" ELSE "p")
            /\ src # dst /\ diag /\ TagAt(g, dst) = None
         THEN <<Pos(File(dst), Rank(src))>> ELSE <<>>)

\* the lookups of is_valid_castling(srcK, srcR, dstK, dstR): the two sources,
\* then the cells between them once the king is asked to go two cells
castling_lookups(g, srcK, srcR, dstK, dstR) ==
    <<srcK, srcR>> \o
    (IF /\ is_valid_castling(g, srcK, srcR, srcK + 2, srcK + 1) = "castling"
           \/ is_valid_castling(g, srcK, srcR, srcK - 2, srcK - 1) = "castling"
        /\ dstK = srcK + (IF File(dstK) > File(srcK) THEN 2 ELSE 0 - 2)
        /\ dstR = srcK + (IF File(dstK) > File(srcK) THEN 1 ELSE 0 - 1)
     THEN RawPath(srcK, srcR) ELSE <<>>)

\* the lookups that a move makes after its last gate: move_rook and move_king
\* read self[src] for the castling flags, a pawn capture for the two-step record
lookups_after(g, c) ==
    IF \/ TagAt(g, CmdSrc(c)) \in {"R", "r", "K", "k"} /\ parse_cmd(c).dst1 = <<>>
       \/ CmdKind(g, c) = "capture" /\ TagAt(g, CmdSrc(c)) \in {"P", "p"}
    THEN <<CmdSrc(c)>> ELSE <<>>

QueryInit ==
    /\ board = 2
    /\ game = WithCache(CustomGame(PassScenarios[board].pieces), EmptyCache)
    /\ op = "init"
    /\ cmd = <<>>
    /\ step = 0
    /\ result = OK
    /\ vacated = {}
    /\ rng = Unseeded

\* a call named c that leaves the game r
QueryCall(c, r) ==
    /\ step < QueryMaxOps
    /\ game' = r
    /\ op' = c[1]
    /\ cmd' = c
    /\ step' = step + 1
    /\ result' = OK
    /\ UNCHANGED <<board, vacated, rng>>

\* game.run_short_cmd(c) of a command that succeeds: its gates and measurements
\* clear the cache
QueryMove ==
    \E c \in PassScenarios[board].cmds, rnd \in {0, 1} :
        LET Done(r) ==
                /\ r.err = OK
                /\ QueryCall(<<"run">> \o c,
                             GetItems(WithCache(r, EmptyCache), lookups_after(Uncached(game), c)))
        IN  Done(run_short_cmd(Uncached(game), c, rnd))

\* game[x]
QueryGetItem ==
    \E x \in QueryCells : QueryCall(<<"getitem", x>>, getitem(game, x))

\* game.is_valid_move_rook(src, None, dst, None)
QueryRook ==
    \E src \in QueryCells, dst \in QueryCells :
        QueryCall(<<"is_valid_move_rook", src, dst>>,
                  GetItems(game, rook_lookups(Uncached(game), src, dst)))

\* game.is_valid_move_pawn(src, dst, None) of a pawn off the edge ranks
QueryPawn ==
    \E src \in QueryCells, dst \in QueryCells :
        /\ Rank(src) \in 1..6
        /\ QueryCall(<<"is_valid_move_pawn", src, dst>>,
                     GetItems(game, pawn_lookups(Uncached(game), src, dst)))

\* game.is_valid_castling(e1, srcR, dstK, dstR)
QueryCastling ==
    \E srcR \in {Pos(0, 0), Pos(7, 0)}, dstK \in {Pos(2, 0), Pos(6, 0)} :
        \E dstR \in {Pos(3, 0), Pos(5, 0)} :
            QueryCall(<<"is_valid_castling", srcR, dstK, dstR>>,
                      GetItems(game, castling_lookups(Uncached(game), Pos(4, 0), srcR, dstK, dstR)))

\* game.get_all_available_move(), which looks up every cell
QueryEnumerate ==
    /\ ~get_all_available_move_raises(Uncached(game))
    /\ QueryCall(<<"get_all_available_move">>, GetItems(game, [n \in 1..64 |-> n - 1]))

\* game.is_finish_or_not(), which reads the tags only
QueryFinish ==
    QueryCall(<<"is_finish_or_not", is_finish_or_not(game)>>, game)

QueryNext ==
    \/ QueryMove
    \/ QueryGetItem
    \/ QueryRook
    \/ QueryPawn
    \/ QueryCastling
    \/ QueryEnumerate
    \/ QueryFinish

QuerySpec == QueryInit /\ [][QueryNext]_vars

UniformWidth(g) ==
    /\ Len(g.pos2tag) >= 64
    /\ \A k \in Keys(g) : Len(k) = Len(g.pos2tag)

\* C39: in every reachable simulator state all stored basis keys have the same
\* length, that length equals len(pos2tag) = 64 + the number of ancillas,
\* add_ancilla increases it by exactly one with a 0 bit in every key, and
\* drop_ancilla decreases it by exactly the number of freed indices.
C39_UniformKeyWidth ==
    /\ [](UniformWidth(game))
    /\ [][(op' = "add_ancilla" /\ result' = OK)
            => /\ Len(game'.pos2tag) = Len(game.pos2tag) + 1
               /\ Keys(game') = {Append(k, 0) : k \in Keys(game)}]_vars
    /\ [][(op' = "drop_ancilla" /\ result' = OK)
            => /\ Len(game'.pos2tag) = Len(game.pos2tag) - 1
               /\ \A k \in Keys(game') : Len(k) = Len(game.pos2tag) - 1]_vars

\* a capture has left an ancilla that holds the captured piece in part of the
\* keys
C39_Witness ==
    /\ op \in {"capture_jump", "capture_slide"} /\ result = OK
    /\ Len(game.pos2tag) > 64
    /\ \E k \in Keys(game) : k[65] = 1
    /\ \E k \in Keys(game) : k[65] = 0


\* C40: revert returns to the game's own starting position. For a game whose
\* starting position was installed as a custom board, revert_cmd(k) yields
\* the state obtained by applying the first len(history)-k recorded commands
\* to that custom board, and revert_cmd(n) with n >= len(history) yields
\* exactly that custom starting position with empty history and step 0.
C40_RevertToOwnStart ==
    [][(op' = "revert" /\ ~Standard /\ game.history # <<>>)
          => LET n == Min(step', Len(game.history))
                 kept == SubSeq(game.history, 1, Len(game.history) - n)
                 rnds == [i \in 1..Len(game.history) |-> 0]
             IN  /\ result' = OK
                 /\ SameState(game', Replay(InitialGame(board), kept, rnds))
                 /\ n = Len(game.history)
                       => /\ SameBoard(game', InitialGame(board))
                          /\ game'.history = <<>>
                          /\ game'.current_step = 0]_vars

====
